---- MODULE Spec2Model ----
(***************************************************************************)
(* The four-stage travel-recommendation pipeline of src/travel:            *)
(* TravelAssistant (main.py) and the three services it drives              *)
(* (place_search.py, place_image.py, place_info.py).                       *)
(*                                                                         *)
(* Python values are modelled as follows.  A str that the code inspects    *)
(* (a place name, the location) is a sequence of one-character strings; a  *)
(* str that the code only passes along is a TLA+ string.  A dict with      *)
(* fixed string keys is a function on a set of strings (a record); a dict  *)
(* keyed by category is a sequence of entries in insertion order.  None is *)
(* the string "None".  Place dicts are mutable objects shared by           *)
(* reference: they live in `heap` and the category lists hold references.  *)
(***************************************************************************)
EXTENDS Integers, Sequences, FiniteSets, TLC

VARIABLES
    pc,                  \* the graph node to run next ("END" when invoke is over)
    location,            \* state["location"]
    selected_categories, \* state["selected_categories"]
    raw_places,          \* state["raw_places"]
    enriched_places,     \* state["enriched_places"]
    research_data,       \* state["research_data"]
    final_result,        \* state["final_result"]
    errors,              \* state["errors"]
    step,                \* state["step"]
    heap,                \* the place dicts, by reference
    trace,               \* the nodes run so far, in order
    calls,               \* the external requests issued so far, in order
    env,                 \* what the external services answered in each stage,
                         \* and the nodes whose service method raised
    returned,            \* the value generate_travel_recommendations returned
    request,             \* a direct call of a service method, an endpoint or
                         \* a tool: its name and its arguments
    response             \* what that call returned and the requests it made

\* the state of the graph and of its services
graphVars == <<pc, location, selected_categories, raw_places, enriched_places,
               research_data, final_result, errors, step, heap, trace, calls,
               env, returned>>

vars == <<graphVars, request, response>>

(***************************************************************************)
(* Bounds of the model.                                                    *)
(***************************************************************************)
\* the longest entry list an LLM answer holds
MaxEntries == 2
\* the most places one run discovers, over all categories
MaxPlaces == 2

(***************************************************************************)
(* Strings.                                                                *)
(***************************************************************************)
None == "None"

UpperCase == <<"A","B","C","D","E","F","G","H","I","J","K","L","M",
               "N","O","P","Q","R","S","T","U","V","W","X","Y","Z">>
LowerCase == <<"a","b","c","d","e","f","g","h","i","j","k","l","m",
               "n","o","p","q","r","s","t","u","v","w","x","y","z">>
Digits == {"0","1","2","3","4","5","6","7","8","9"}
Whitespace == {" ", "\t", "\n"}

\* str.lower(), one character
LowerChar(c) ==
    IF \E i \in DOMAIN UpperCase : UpperCase[i] = c
    THEN LowerCase[CHOOSE i \in DOMAIN UpperCase : UpperCase[i] = c]
    ELSE c

\* str.lower()
Lower(s) == [i \in DOMAIN s |-> LowerChar(s[i])]

\* str.strip(): drop the leading and the trailing whitespace
Strip(s) ==
    LET keep == {i \in DOMAIN s : s[i] \notin Whitespace}
    IN  IF keep = {} THEN <<>>
        ELSE LET lo == CHOOSE i \in keep : \A j \in keep : i <= j
                 hi == CHOOSE i \in keep : \A j \in keep : j <= i
             IN  SubSeq(s, lo, hi)

\* s[i:].startswith(lit), i counted from 1
MatchAt(s, i, lit) ==
    /\ i >= 1
    /\ i + Len(lit) - 1 <= Len(s)
    /\ \A k \in 1..Len(lit) : s[i + k - 1] = lit[k]

\* lit in s
Contains(s, lit) == \E i \in 1..(Len(s) + 1) : MatchAt(s, i, lit)

\* the position after the longest run of digits of s that starts at i
\* (i itself when s[i] is no digit)
DigitsEnd(s, i) ==
    LET stops == {j \in i..(Len(s) + 1) :
                     /\ \A k \in i..(j - 1) : s[k] \in Digits
                     /\ (j = Len(s) + 1 \/ s[j] \notin Digits)}
    IN  CHOOSE j \in stops : TRUE

\* re.search(lit \d+ rest, s) anchored at position i: the literal, one or
\* more digits, the rest.  When `rest` starts with a non-digit the run of
\* digits it follows is the longest one.
MatchLitDigitsLit(s, i, lit, rest) ==
    /\ MatchAt(s, i, lit)
    /\ LET d == i + Len(lit)
           e == DigitsEnd(s, d)
       IN  /\ e > d
           /\ MatchAt(s, e, rest)

\* the irrelevant_patterns, under re.IGNORECASE: the name is lowered and
\* matched against the lowered pattern
P_the       == <<"t","h","e"," ">>
P_best      == <<" ","b","e","s","t">>
P_top       == <<"t","o","p"," ">>
P_best_     == <<"b","e","s","t"," ">>
P_updated   == <<"u","p","d","a","t","e","d"," ">>
P_students  == <<"-"," ","s","t","u","d","e","n","t","s">>
P_near_me   == <<"n","e","a","r"," ","m","e">>
P_dot       == <<".">>
P_manufacturers == <<"m","a","n","u","f","a","c","t","u","r","e","r","s">>
P_supplier  == <<"s","u","p","p","l","i","e","r">>
P_tours_in  == <<"t","o","u","r","s"," ","i","n">>
P_activities_in == <<"a","c","t","i","v","i","t","i","e","s"," ","i","n">>
P_things_to_do  == <<"t","h","i","n","g","s"," ","t","o"," ","d","o">>
P_ellipsis  == <<".",".",".">>

\* UPDATED \d{4}: the literal and four digits, anywhere
MatchUpdated(s) ==
    \E i \in 1..Len(s) :
        /\ MatchAt(s, i, P_updated)
        /\ i + Len(P_updated) + 3 <= Len(s)
        /\ \A k \in 0..3 : s[i + Len(P_updated) + k] \in Digits

\* any(re.search(pattern, name, re.IGNORECASE) for pattern in irrelevant_patterns)
MatchesIrrelevantPattern(name) ==
    LET s == Lower(name)
    IN  \/ MatchLitDigitsLit(s, 1, P_the, P_best)       \* ^THE \d+ BEST
        \/ MatchLitDigitsLit(s, 1, P_top, <<>>)         \* ^Top \d+
        \/ MatchLitDigitsLit(s, 1, P_best_, <<>>)       \* ^Best \d+
        \/ MatchLitDigitsLit(s, 1, <<>>, P_best)        \* ^(\d+) Best
        \/ MatchUpdated(s)                              \* UPDATED \d{4}
        \/ Contains(s, P_students)                      \* - Students
        \/ Contains(s, P_near_me)                       \* near me
        \/ MatchLitDigitsLit(s, 1, <<>>, P_dot)         \* ^\d+\.
        \/ Contains(s, P_manufacturers)                 \* Manufacturers
        \/ Contains(s, P_supplier)                      \* Supplier
        \/ Contains(s, P_tours_in)                      \* Tours in
        \/ Contains(s, P_activities_in)                 \* Activities in
        \/ Contains(s, P_things_to_do)                  \* Things to Do

\* the location_generic phrases built from the location
G_dash     == <<" ","-">>
G_in       == <<"i","n"," ">>
G_guide    == <<" ","G","u","i","d","e">>
G_tourism  == <<" ","T","o","u","r","i","s","m">>
G_culture  == <<"C","u","l","t","u","r","e"," ","&"," ","H","e","r","i","t","a","g","e",
                " ","-"," ","I","n","d","i","a">>
G_explore  == <<"E","x","p","l","o","r","e"," ">>
G_visiting == <<"V","i","s","i","t","i","n","g"," ">>

location_generic(loc) ==
    { loc \o G_dash, G_in \o loc, loc \o G_guide, loc \o G_tourism,
      G_culture, G_explore \o loc, G_visiting \o loc }

\* any(generic.lower() in name.lower() for generic in location_generic)
MatchesLocationGeneric(name, loc) ==
    \E g \in location_generic(loc) : Contains(Lower(name), Lower(g))

\* dict.get(key, default)
Get(d, k, default) == IF k \in DOMAIN d THEN d[k] ELSE default

\* {**base, **over}
Merge(base, over) ==
    [k \in DOMAIN base \cup DOMAIN over |->
        IF k \in DOMAIN over THEN over[k] ELSE base[k]]

(***************************************************************************)
(* config.py: the static category mapping, in insertion order.  A label    *)
(* is the token sequence  <name part> " " "(" <examples> ")"  (the emoji   *)
(* that opens each name part is left out of the token).                    *)
(***************************************************************************)
Desc(namePart, examples) == <<namePart, " ", "(", examples, ")">>

CATEGORIES == <<
    [key |-> "natural_attractions",
     desc |-> Desc("Natural Attractions", "parks, beaches, mountains, waterfalls")],
    [key |-> "cultural_heritage",
     desc |-> Desc("Cultural & Heritage", "museums, temples, historical sites")],
    [key |-> "urban_modern",
     desc |-> Desc("Urban & Modern", "skyscrapers, shopping, theaters")],
    [key |-> "adventure_outdoor",
     desc |-> Desc("Adventure & Outdoor", "trekking, diving, extreme sports")],
    [key |-> "recreation_leisure",
     desc |-> Desc("Recreation & Leisure", "theme parks, zoos, spas")],
    [key |-> "sports_events",
     desc |-> Desc("Sports & Events", "stadiums, festivals, sporting venues")],
    [key |-> "health_wellness",
     desc |-> Desc("Health & Wellness", "spas, wellness centers, medical tourism")],
    [key |-> "religious_spiritual",
     desc |-> Desc("Religious & Spiritual", "pilgrimage sites, sacred places")],
    [key |-> "educational_scientific",
     desc |-> Desc("Educational & Scientific", "science centers, universities")],
    [key |-> "special_interest",
     desc |-> Desc("Special Interest", "culinary tours, photography, niche tourism")] >>

CategoryKeys == {CATEGORIES[i].key : i \in DOMAIN CATEGORIES}

\* CATEGORIES[key]
CategoryDesc(key) ==
    CATEGORIES[CHOOSE i \in DOMAIN CATEGORIES : CATEGORIES[i].key = key].desc

\* cat_desc.split('(')[0].strip()
CategoryName(desc) ==
    LET opens == {i \in DOMAIN desc : desc[i] = "("}
        head  == IF opens = {} THEN desc
                 ELSE SubSeq(desc, 1, (CHOOSE i \in opens : \A j \in opens : i <= j) - 1)
    IN  Strip(head)

(***************************************************************************)
(* place_search.py: PlacesDiscoveryService.                                *)
(***************************************************************************)
\* IsIrrelevant dropping a name of 80 characters too
IsIrrelevant_EightyIsTooLong(place, loc) ==
    LET name == Strip(Get(place, "name", <<>>))
    IN  \/ name = <<>>
        \/ Len(name) < 3
        \/ MatchesIrrelevantPattern(name)
        \/ MatchesLocationGeneric(name, loc)
        \/ Contains(name, P_ellipsis)
        \/ Len(name) >= 80

\* one place of filter_irrelevant_results: is it dropped?
IsIrrelevant(place, loc) ==
    LET name == Strip(Get(place, "name", <<>>))
    IN  \/ name = <<>>
        \/ Len(name) < 3
        \/ MatchesIrrelevantPattern(name)
        \/ MatchesLocationGeneric(name, loc)
        \/ Contains(name, P_ellipsis)
        \/ Len(name) > 80

\* place.get('description', '').strip() raises on a description that is
\* no str (JSON null)
FilterRaises(places) ==
    \E i \in DOMAIN places : Get(places[i], "description", "") = None

\* filter_irrelevant_results(places, location), when it does not raise
filter_irrelevant_results(places, loc) ==
    SelectSeq(places, LAMBDA p : ~IsIrrelevant(p, loc))

\* get_places_with_openai_web(location, category) given the answer `resp`
\* of client.responses.create.  Everything is inside the try: a location
\* that cannot be formatted, a failed request, text holding no JSON array,
\* text that does not parse, and a raising filter all give [].
\*   called : whether the request was issued.
get_places_with_openai_web(loc, resp) ==
    IF ~loc.ok THEN [called |-> FALSE, places |-> <<>>]
    ELSE [called |-> TRUE,
          places |->
             IF resp.kind = "raise" THEN <<>>
             ELSE IF ~(resp.start # -1 /\ resp.end # 0) THEN <<>>
             ELSE IF resp.json = "JSONDecodeError" THEN <<>>
             ELSE IF FilterRaises(resp.entries) THEN <<>>
             ELSE filter_irrelevant_results(resp.entries, loc.text)]

\* the place dict categorize_places builds from one web result
MakePlace(result) ==
    [name        |-> Get(result, "name", <<>>),
     description |-> Get(result, "description", ""),
     rating      |-> Get(result, "rating", ""),
     address     |-> Get(result, "address", ""),
     source      |-> "openai_web"]

\* the quality filter letting a name of 80 characters through
PassesQuality_EightyPasses(place) ==
    LET name == Strip(place.name)
    IN  name # <<>> /\ Len(name) > 2 /\ Len(name) <= 80

\* the quality filter of categorize_places
PassesQuality(place) ==
    LET name == Strip(place.name)
    IN  name # <<>> /\ Len(name) > 2 /\ Len(name) < 80

\* {key: CATEGORIES[key] for key in selected_categories if key in CATEGORIES}:
\* the keys in order of first occurrence
RECURSIVE SelectedKeys(_)
SelectedKeys(sel) ==
    IF sel = <<>> THEN <<>>
    ELSE LET init == SelectedKeys(SubSeq(sel, 1, Len(sel) - 1))
             k    == sel[Len(sel)]
         IN  IF k \in CategoryKeys /\ \A i \in DOMAIN init : init[i] # k
             THEN Append(init, k)
             ELSE init

\* categories_to_search taking every category whatever the selection
categories_to_search_IgnoresSelection(sel) ==
    [i \in DOMAIN CATEGORIES |-> CATEGORIES[i].key]

\* categories_to_search, as the sequence of its keys
categories_to_search(sel) ==
    IF sel.kind = "list" /\ sel.keys # <<>>
    THEN SelectedKeys(sel.keys)
    ELSE [i \in DOMAIN CATEGORIES |-> CATEGORIES[i].key]

\* final_places cut to its first eight places
final_places_FirstEight(loc, resp) ==
    LET web_results == get_places_with_openai_web(loc, resp).places
        kept == SelectSeq([i \in DOMAIN web_results |-> MakePlace(web_results[i])],
                          PassesQuality)
    IN  SubSeq(kept, 1, IF Len(kept) > 8 THEN 8 ELSE Len(kept))

\* the body of the loop of categorize_places for one category
final_places(loc, resp) ==
    LET web_results == get_places_with_openai_web(loc, resp).places
    IN  SelectSeq([i \in DOMAIN web_results |-> MakePlace(web_results[i])],
                  PassesQuality)

\* categorize_places(location, selected_categories): the result dict, with
\* the place dicts in line, given the final_places fpOf[key] of each
\* search.  Only categories with places are included.
RECURSIVE CategorizeLoop_StopsAtEmpty(_, _)
\* CategorizeLoop leaving the loop at the first category without places
CategorizeLoop_StopsAtEmpty(keys, fpOf) ==
    IF keys = <<>> THEN <<>>
    ELSE LET k    == Head(keys)
             fp   == fpOf[k]
         IN  IF fp # <<>>
             THEN <<[key |-> k, category |-> CategoryDesc(k), places |-> fp]>>
                     \o CategorizeLoop_StopsAtEmpty(Tail(keys), fpOf)
             ELSE <<>>

RECURSIVE CategorizeLoop_KeepsEmpty(_, _)
\* the loop of categorize_places without the test `if final_places`
CategorizeLoop_KeepsEmpty(keys, fpOf) ==
    IF keys = <<>> THEN <<>>
    ELSE <<[key |-> Head(keys), category |-> CategoryDesc(Head(keys)),
            places |-> fpOf[Head(keys)]]>>
            \o CategorizeLoop_KeepsEmpty(Tail(keys), fpOf)

RECURSIVE CategorizeLoop(_, _)
CategorizeLoop(keys, fpOf) ==
    IF keys = <<>> THEN <<>>
    ELSE LET k    == Head(keys)
             fp   == fpOf[k]
             rest == CategorizeLoop(Tail(keys), fpOf)
         IN  IF fp # <<>>
             THEN <<[key |-> k, category |-> CategoryDesc(k), places |-> fp]>> \o rest
             ELSE rest

\* a truthy selected_categories that is no list of strings makes the dict
\* comprehension raise, outside any try of the service
categorize_raises(sel) == sel.kind = "malformed"

categorize_places(sel, fpOf) ==
    CategorizeLoop(categories_to_search(sel), fpOf)

\* the web-search requests categorize_places issues, in order
DiscoveryCalls(loc, sel) ==
    IF ~loc.ok THEN <<>>
    ELSE [i \in DOMAIN categories_to_search(sel) |->
             [api |-> "llm_web_search",
              cat |-> categories_to_search(sel)[i],
              idx |-> 0,
              arg |-> CategoryName(CategoryDesc(categories_to_search(sel)[i]))]]

(***************************************************************************)
(* Dicts keyed by category: a sequence of entries [key, category, places]  *)
(* where places is a sequence of references into the heap.                 *)
(***************************************************************************)
Keys(data) == [i \in DOMAIN data |-> data[i].key]

RECURSIVE Flatten(_)
\* the places of all categories, in iteration order
Flatten(data) ==
    IF data = <<>> THEN <<>> ELSE Head(data).places \o Flatten(Tail(data))

\* the number of places in the categories before the i-th
Offset(data, i) == Len(Flatten(SubSeq(data, 1, i - 1)))

\* the category key and the position of the n-th place of Flatten(data)
CatOf(data, n) ==
    CHOOSE i \in DOMAIN data :
        Offset(data, i) < n /\ n <= Offset(data, i) + Len(data[i].places)

(***************************************************************************)
(* place_image.py: GooglePlacesService.                                    *)
(***************************************************************************)
places_url == "https://maps.googleapis.com/maps/api/place"
max_width == 400

\* get_photo_url(photo_reference)
get_photo_url(photo_reference) ==
    <<places_url, "/photo?maxwidth=", max_width,
      "&photoreference=", photo_reference, "&key=", "GOOGLE_API_KEY">>

\* a Python value used as a condition
Truthy(v) == v # None /\ v # ""

\* search_place(place_name, location) given the answer of requests.get
search_place(resp) ==
    IF resp.kind = "raise" THEN <<>> ELSE Get(resp.data, "results", <<>>)

\* get_place_details(place_id) given the answer of requests.get; "null"
\* stands for a body whose "result" is null, which .get returns as None
get_place_details(resp) ==
    IF resp.kind = "raise" THEN [kind |-> "dict", value |-> <<>>]
    ELSE IF resp.kind = "null" THEN [kind |-> "None", value |-> <<>>]
    ELSE [kind |-> "dict", value |-> Get(resp.data, "result", <<>>)]

\* photos[:3]
FirstThree(photos) ==
    SubSeq(photos, 1, IF Len(photos) < 3 THEN Len(photos) ELSE 3)

\* photo_urls taking the first three of the entries with a reference
photo_urls_FilterFirst(photos) ==
    LET withRef == FirstThree(SelectSeq(photos,
                             LAMBDA ph : Truthy(Get(ph, "photo_reference", None))))
    IN  [i \in DOMAIN withRef |-> get_photo_url(withRef[i].photo_reference)]

\* the photo_urls loop: the first three entries, those with a reference
photo_urls(photos) ==
    LET withRef == SelectSeq(FirstThree(photos),
                             LAMBDA ph : Truthy(Get(ph, "photo_reference", None)))
    IN  [i \in DOMAIN withRef |-> get_photo_url(withRef[i].photo_reference)]

\* enriched_place with "" as the default of the address
enriched_place_AddressDefaultEmpty(place, google_place, details) ==
    Merge(place,
      [google_rating |-> Get(google_place, "rating", None),
       address       |-> Get(google_place, "formatted_address", ""),
       photos        |-> photo_urls(Get(google_place, "photos", <<>>)),
       website       |-> Get(details, "website", None),
       phone         |-> Get(details, "formatted_phone_number", None),
       opening_hours |-> Get(Get(details, "opening_hours", <<>>), "weekday_text", <<>>),
       coordinates   |->
          [lat |-> Get(Get(Get(google_place, "geometry", <<>>), "location", <<>>),
                       "lat", None),
           lng |-> Get(Get(Get(google_place, "geometry", <<>>), "location", <<>>),
                       "lng", None)]])

\* the enriched_place dict
enriched_place(place, google_place, details) ==
    Merge(place,
      [google_rating |-> Get(google_place, "rating", None),
       address       |-> Get(google_place, "formatted_address",
                             Get(place, "address", "")),
       photos        |-> photo_urls(Get(google_place, "photos", <<>>)),
       website       |-> Get(details, "website", None),
       phone         |-> Get(details, "formatted_phone_number", None),
       opening_hours |-> Get(Get(details, "opening_hours", <<>>), "weekday_text", <<>>),
       coordinates   |->
          [lat |-> Get(Get(Get(google_place, "geometry", <<>>), "location", <<>>),
                       "lat", None),
           lng |-> Get(Get(Get(google_place, "geometry", <<>>), "location", <<>>),
                       "lng", None)]])

\* EnrichOne emitting a record with default fields when the lookup fails
EnrichOne_FailedLookupDefaults(acc, r, n, loc, resp) ==
    IF acc.raised THEN acc
    ELSE IF ~loc.ok                                    \* the query f-string
    THEN [acc EXCEPT !.raised = TRUE, !.seen = @ + 1]
    ELSE
    LET a == [acc EXCEPT !.seen = @ + 1]
        search_results == search_place(resp.search)
        c1 == Append(acc.calls, [api |-> "textsearch", cat |-> "", idx |-> n,
                                 arg |-> acc.heap[r].name])
    IN  IF search_results = <<>>
        THEN [a EXCEPT !.calls = c1,
                       !.heap  = Append(@, Merge(acc.heap[r], [photos |-> <<>>])),
                       !.out   = Append(@, Len(acc.heap) + 1)]
        ELSE
        LET google_place == search_results[1]
        IN  IF "nondict" \in DOMAIN google_place
            THEN [a EXCEPT !.calls = c1, !.raised = TRUE]
            ELSE
            LET place_id == Get(google_place, "place_id", None)
                asked    == Truthy(place_id)
                details  == IF asked THEN get_place_details(resp.details)
                            ELSE [kind |-> "dict", value |-> <<>>]
                c2 == IF asked
                      THEN Append(c1, [api |-> "details", cat |-> "", idx |-> n,
                                       arg |-> <<place_id>>])
                      ELSE c1
            IN  IF details.kind = "None"
                THEN [a EXCEPT !.calls = c2, !.raised = TRUE]
                ELSE [a EXCEPT
                        !.calls = c2,
                        !.heap  = Append(@, enriched_place(acc.heap[r], google_place,
                                                           details.value)),
                        !.out   = Append(@, Len(acc.heap) + 1)]

\* EnrichOne asking for the details whatever the place_id
EnrichOne_AlwaysDetails(acc, r, n, loc, resp) ==
    IF acc.raised THEN acc
    ELSE IF ~loc.ok                                    \* the query f-string
    THEN [acc EXCEPT !.raised = TRUE, !.seen = @ + 1]
    ELSE
    LET a == [acc EXCEPT !.seen = @ + 1]
        search_results == search_place(resp.search)
        c1 == Append(acc.calls, [api |-> "textsearch", cat |-> "", idx |-> n,
                                 arg |-> acc.heap[r].name])
    IN  IF search_results = <<>>
        THEN [a EXCEPT !.calls = c1, !.out = Append(@, r)]
        ELSE
        LET google_place == search_results[1]
        IN  IF "nondict" \in DOMAIN google_place
            THEN [a EXCEPT !.calls = c1, !.raised = TRUE]
            ELSE
            LET place_id == Get(google_place, "place_id", None)
                asked    == TRUE
                details  == IF asked THEN get_place_details(resp.details)
                            ELSE [kind |-> "dict", value |-> <<>>]
                c2 == IF asked
                      THEN Append(c1, [api |-> "details", cat |-> "", idx |-> n,
                                       arg |-> <<place_id>>])
                      ELSE c1
            IN  IF details.kind = "None"
                THEN [a EXCEPT !.calls = c2, !.raised = TRUE]
                ELSE [a EXCEPT
                        !.calls = c2,
                        !.heap  = Append(@, enriched_place(acc.heap[r], google_place,
                                                           details.value)),
                        !.out   = Append(@, Len(acc.heap) + 1)]

\* One iteration of the inner loop of enrich_places_with_images, for the
\* place at reference r, the n-th place overall; resp = [search, details]
\* are the answers of the places API.  acc = [heap, out, calls, raised,
\* seen]; seen counts the places whose iteration started.
EnrichOne(acc, r, n, loc, resp) ==
    IF acc.raised THEN acc
    ELSE IF ~loc.ok                                    \* the query f-string
    THEN [acc EXCEPT !.raised = TRUE, !.seen = @ + 1]
    ELSE
    LET a == [acc EXCEPT !.seen = @ + 1]
        search_results == search_place(resp.search)
        c1 == Append(acc.calls, [api |-> "textsearch", cat |-> "", idx |-> n,
                                 arg |-> acc.heap[r].name])
    IN  IF search_results = <<>>
        THEN [a EXCEPT !.calls = c1, !.out = Append(@, r)]
        ELSE
        LET google_place == search_results[1]
        IN  IF "nondict" \in DOMAIN google_place
            THEN [a EXCEPT !.calls = c1, !.raised = TRUE]
            ELSE
            LET place_id == Get(google_place, "place_id", None)
                asked    == Truthy(place_id)
                details  == IF asked THEN get_place_details(resp.details)
                            ELSE [kind |-> "dict", value |-> <<>>]
                c2 == IF asked
                      THEN Append(c1, [api |-> "details", cat |-> "", idx |-> n,
                                       arg |-> <<place_id>>])
                      ELSE c1
            IN  IF details.kind = "None"
                THEN [a EXCEPT !.calls = c2, !.raised = TRUE]
                ELSE [a EXCEPT
                        !.calls = c2,
                        !.heap  = Append(@, enriched_place(acc.heap[r], google_place,
                                                           details.value)),
                        !.out   = Append(@, Len(acc.heap) + 1)]

RECURSIVE EnrichLoop(_, _, _, _, _, _)
\* the two loops of enrich_places_with_images over the first n places
\* (the accumulator is bound by a set constructor, which computes it once)
EnrichLoop(flat, n, loc, resp, h, cs) ==
    IF n = 0
    THEN [heap |-> h, out |-> <<>>, calls |-> cs, raised |-> FALSE, seen |-> 0]
    ELSE CHOOSE res \in { EnrichOne(acc, flat[n], n, loc, resp[n]) :
                             acc \in {EnrichLoop(flat, n - 1, loc, resp, h, cs)} } : TRUE

\* enrich_places_with_images(places_data, location):
\* [heap, data, calls, raised]; data is the new dict, with a new entry
\* {**cat_data, "places": enriched_places} per category
enrich_places_with_images(places_data, loc, resp, h, cs) ==
    CHOOSE res \in {
           [heap   |-> r.heap,
            calls  |-> r.calls,
            raised |-> r.raised,
            seen   |-> r.seen,
            data   |-> IF r.raised THEN <<>>
                       ELSE [i \in DOMAIN places_data |->
                               [places_data[i] EXCEPT !.places =
                                   SubSeq(r.out, Offset(places_data, i) + 1,
                                          Offset(places_data, i)
                                             + Len(places_data[i].places))]]] :
           r \in {EnrichLoop(Flatten(places_data), Len(Flatten(places_data)),
                             loc, resp, h, cs)} } : TRUE

(***************************************************************************)
(* place_info.py: LangChainInfoService.                                    *)
(***************************************************************************)
\* result["output"] of a successful agent call
AgentOutput == <<"agent output">>

\* get_location_info(location), given the outcome of agent.invoke
get_location_info(loc, outcome) ==
    IF outcome = "ok"
    THEN [location |-> loc.text, description |-> AgentOutput,
          sources |-> "Wikipedia and Tavily Search"]
    ELSE [location |-> loc.text,
          description |-> <<"Unable to fetch detailed information about ", loc.text>>,
          sources |-> "Error"]

\* get_place_insights(place_name, location), given the outcome of agent.invoke
get_place_insights(place_name, outcome) ==
    IF outcome = "ok"
    THEN [place |-> place_name, insights |-> AgentOutput,
          research_sources |-> "Wikipedia and Tavily"]
    ELSE [place |-> place_name,
          insights |-> <<"Unable to fetch insights about ", place_name>>,
          research_sources |-> "Error"]

\* ResearchOne taking the last place of the list for the top place
ResearchOne_LastPlace(acc, data, i, outcome) ==
    IF data[i].places = <<>> THEN acc
    ELSE LET top == data[i].places[Len(data[i].places)]
             insights == get_place_insights(acc.heap[top].name, outcome)
         IN  [heap  |-> [acc.heap EXCEPT ![top] =
                            Merge(@, [ai_insights |-> insights.insights])],
              calls |-> Append(acc.calls,
                               [api |-> "agent", cat |-> data[i].key, idx |-> 1,
                                arg |-> acc.heap[top].name])]

\* ResearchOne writing the insights over the description as well
ResearchOne_OverwritesDescription(acc, data, i, outcome) ==
    IF data[i].places = <<>> THEN acc
    ELSE LET top == data[i].places[1]
             insights == get_place_insights(acc.heap[top].name, outcome)
         IN  [heap  |-> [acc.heap EXCEPT ![top] =
                            Merge(@, [ai_insights |-> insights.insights,
                                      description |-> insights.insights])],
              calls |-> Append(acc.calls,
                               [api |-> "agent", cat |-> data[i].key, idx |-> 1,
                                arg |-> acc.heap[top].name])]

\* One iteration of the loop of enrich_with_research, for the i-th
\* category: the first place of a non-empty list gets "ai_insights".
\* acc = [heap, calls].
ResearchOne(acc, data, i, outcome) ==
    IF data[i].places = <<>> THEN acc
    ELSE LET top == data[i].places[1]
             insights == get_place_insights(acc.heap[top].name, outcome)
         IN  [heap  |-> [acc.heap EXCEPT ![top] =
                            Merge(@, [ai_insights |-> insights.insights])],
              calls |-> Append(acc.calls,
                               [api |-> "agent", cat |-> data[i].key, idx |-> 1,
                                arg |-> acc.heap[top].name])]

RECURSIVE ResearchLoop(_, _, _, _, _)
ResearchLoop(data, n, outcomes, h, cs) ==
    IF n = 0 THEN [heap |-> h, calls |-> cs]
    ELSE CHOOSE res \in { ResearchOne(acc, data, n, outcomes.insights[n]) :
                             acc \in {ResearchLoop(data, n - 1, outcomes, h, cs)} } : TRUE

\* enrich_with_research(enriched_places_data, location): the query of
\* get_location_info is formatted outside its try, so a location that
\* cannot be formatted makes the method raise before any call.
\* outcomes = [overview, insights]: how each agent.invoke ended; asked is
\* the part of them the method got to see.

\* enrich_with_research, had get_location_info no try of its own
enrich_with_research_OverviewUncaught(data, loc, outcomes, h, cs) ==
    IF ~loc.ok
    THEN [raised |-> TRUE, heap |-> h, calls |-> cs, value |-> <<>>, asked |-> <<>>]
    ELSE LET c0 == Append(cs, [api |-> "agent", cat |-> "", idx |-> 0,
                               arg |-> loc.text])
             r  == ResearchLoop(data, Len(data), outcomes, h, c0)
         IN  IF outcomes.overview = "raise"
             THEN [raised |-> TRUE, heap |-> h, calls |-> c0, value |-> <<>>,
                   asked |-> outcomes]
             ELSE [raised |-> FALSE, heap |-> r.heap, calls |-> r.calls,
                   asked |-> outcomes,
                   value |-> [location_overview |->
                                 get_location_info(loc, outcomes.overview),
                              categories |-> data]]

enrich_with_research(data, loc, outcomes, h, cs) ==
    IF ~loc.ok
    THEN [raised |-> TRUE, heap |-> h, calls |-> cs, value |-> <<>>, asked |-> <<>>]
    ELSE LET c0 == Append(cs, [api |-> "agent", cat |-> "", idx |-> 0,
                               arg |-> loc.text])
             r  == ResearchLoop(data, Len(data), outcomes, h, c0)
         IN  [raised |-> FALSE, heap |-> r.heap, calls |-> r.calls,
              asked  |-> outcomes,
              value  |-> [location_overview |-> get_location_info(loc, outcomes.overview),
                          categories |-> data]]

(***************************************************************************)
(* main.py: TravelAssistant.                                               *)
(***************************************************************************)
\* the place_obj finalize_result_node builds from a place dict
\* place_obj taking the last photo for the image
place_obj_LastPhoto(place) ==
    [tourist_place_name  |-> Get(place, "name", <<>>),
     tourist_description |-> Get(place, "description", ""),
     place_image_url     |-> IF Get(place, "photos", <<>>) # <<>>
                             THEN place.photos[Len(place.photos)] ELSE <<>>]

place_obj(place) ==
    [tourist_place_name  |-> Get(place, "name", <<>>),
     tourist_description |-> Get(place, "description", ""),
     place_image_url     |-> IF Get(place, "photos", <<>>) # <<>>
                             THEN place.photos[1] ELSE <<>>]

RECURSIVE formatted_result_KeepsEmpty(_, _)
\* formatted_result without the test `if places_list`
formatted_result_KeepsEmpty(categories, h) ==
    IF categories = <<>> THEN <<>>
    ELSE LET c == Head(categories)
             places_list == [i \in DOMAIN c.places |-> place_obj(h[c.places[i]])]
         IN  <<[key |-> c.key, places |-> places_list]>>
                \o formatted_result_KeepsEmpty(Tail(categories), h)

RECURSIVE formatted_result(_, _)
\* the formatted_result of finalize_result_node: categories without
\* places are left out
formatted_result(categories, h) ==
    IF categories = <<>> THEN <<>>
    ELSE LET c == Head(categories)
             places_list == [i \in DOMAIN c.places |-> place_obj(h[c.places[i]])]
             rest == formatted_result(Tail(categories), h)
         IN  IF places_list # <<>>
             THEN <<[key |-> c.key, places |-> places_list]>> \o rest
             ELSE rest

\* _build_graph: the entry point and the edges
EntryPoint == "discover_places"

\* Edge with the enrichment stage wired past the research stage
Edge_SkipsResearch(node) ==
    CASE node = "discover_places"    -> "enrich_with_images"
      [] node = "enrich_with_images" -> "finalize_result"
      [] node = "add_research"       -> "finalize_result"
      [] node = "finalize_result"    -> "END"

Edge(node) ==
    CASE node = "discover_places"    -> "enrich_with_images"
      [] node = "enrich_with_images" -> "add_research"
      [] node = "add_research"       -> "finalize_result"
      [] node = "finalize_result"    -> "END"

(***************************************************************************)
(* The environment: what the external services may answer.                 *)
(***************************************************************************)
Str_Goa   == <<"G","o","a">>
Str_Taj   == <<"T","a","j">>
Str_Fort  == <<" ","F","o","r","t">>
Str_Top5  == <<"T","o","p"," ","5">>
Str_Bad   == <<"B","a","d">>

\* The arguments of generate_travel_recommendations.  Both are unchecked
\* Python values: besides a str location and a list of keys, the model
\* takes the arguments that make a service method raise outside its own
\* try blocks, which is what the except branches of the nodes are for.
\* a str, and an object whose string conversion raises
Locations == { [ok |-> TRUE, text |-> Str_Goa], [ok |-> FALSE, text |-> <<>>] }

\* None, lists of keys (out of the order of CATEGORIES, with an unknown
\* key, with a duplicate), and a truthy value that is no list of strings
Selections ==
    { [kind |-> "none", keys |-> <<>>],
      [kind |-> "malformed", keys |-> <<>>],
      [kind |-> "list", keys |-> <<"natural_attractions">>],
      [kind |-> "list", keys |-> <<"cultural_heritage", "beaches",
                                   "natural_attractions", "cultural_heritage">>],
      [kind |-> "list", keys |-> <<"urban_modern">>] }

\* the entries an LLM answer may hold: a full one, one with a name only
\* (padded with whitespace), a listicle title, one whose description is null
Entries ==
    { [name |-> Str_Taj, description |-> "a tomb", address |-> "Agra Rd"],
      [name |-> Str_Fort, rating |-> "4.5"],
      [name |-> Str_Top5, description |-> "a listicle"],
      [name |-> Str_Bad, description |-> None] }

EntryLists == UNION { [1..n -> Entries] : n \in 0..MaxEntries }

LLMNoArray == [kind |-> "text", start |-> -1, end |-> 0, json |-> "", entries |-> <<>>]

\* the answers to a web search: the request raises, the text holds no '[',
\* no ']', an array that does not parse, or an array of entries
LLMFailures ==
    { [kind |-> "raise", start |-> -1, end |-> 0, json |-> "", entries |-> <<>>],
      [kind |-> "text", start |-> 0, end |-> 0, json |-> "", entries |-> <<>>],
      [kind |-> "text", start |-> 0, end |-> 9, json |-> "JSONDecodeError",
       entries |-> <<>>],
      LLMNoArray }

LLMResponses ==
    LLMFailures \cup
    { [kind |-> "text", start |-> 0, end |-> 9, json |-> "ok", entries |-> es] :
        es \in EntryLists }

\* the categories the LLM finds places for; the answer to the search of
\* every other category holds no JSON array
ProductiveKeys == {"natural_attractions", "cultural_heritage"}


Photo(ref) == [photo_reference |-> ref, width |-> "800"]
PhotoNoRef == [width |-> "800"]

GP1 == [place_id |-> "pid1", formatted_address |-> "1 Beach Rd", rating |-> "4.7",
        photos |-> <<Photo("r1"), Photo("r2"), Photo("r3"), Photo("r4")>>,
        geometry |-> [location |-> [lat |-> "15.5", lng |-> "73.8"]]]
GP2 == [rating |-> "4.1",
        photos |-> <<PhotoNoRef, Photo("r1"), Photo("r2"), Photo("r3")>>]

\* the answers to a text search: the request raises, no results, a first
\* result that is no JSON object, and lists of results
SearchResponses ==
    { [kind |-> "raise", data |-> <<>>],
      [kind |-> "json", data |-> [status |-> "ZERO_RESULTS", results |-> <<>>]],
      [kind |-> "json", data |-> [status |-> "OK", results |-> <<[nondict |-> TRUE]>>]],
      [kind |-> "json", data |-> [status |-> "OK", results |-> <<GP1, GP2>>]],
      [kind |-> "json", data |-> [status |-> "OK", results |-> <<GP2>>]] }

\* the answers to a details request: it raises, a result, a null result
DetailsResponses ==
    { [kind |-> "raise", data |-> <<>>],
      [kind |-> "null", data |-> <<>>],
      [kind |-> "json", data |->
          [result |-> [website |-> "https://example.org",
                       formatted_phone_number |-> "+91 1",
                       opening_hours |-> [weekday_text |-> <<"Mon: 9-5">>]]]] }

DetailsUnused == [kind |-> "unused", data |-> <<>>]

\* whether the search answer leads to a details request
AsksDetails(search) ==
    /\ search_place(search) # <<>>
    /\ "nondict" \notin DOMAIN search_place(search)[1]
    /\ Truthy(Get(search_place(search)[1], "place_id", None))

\* the answers of the places API for one place
PlaceResponses ==
    { [search |-> s, details |-> d] :
        s \in {x \in SearchResponses : AsksDetails(x)}, d \in DetailsResponses }
    \cup
    { [search |-> s, details |-> DetailsUnused] :
        s \in {x \in SearchResponses : ~AsksDetails(x)} }

AgentOutcomes == {"ok", "raise"}

\* final_places for every location and answer of the model, computed once
FinalPlacesOf ==
    [l \in Locations |-> [r \in LLMResponses |-> final_places(l, r)]]

(***************************************************************************)
(* The run of generate_travel_recommendations(location, selection).        *)
(***************************************************************************)
\* initial_state, and the graph about to run its entry point
\* no direct call: the graph is run through generate_travel_recommendations
NoRequest == [op |-> "generate_travel_recommendations"]
NoResponse == [done |-> FALSE]

Init ==
    /\ location \in Locations
    /\ selected_categories \in Selections
    /\ raw_places = <<>>
    /\ enriched_places = <<>>
    /\ research_data = <<>>
    /\ final_result = <<>>
    /\ errors = <<>>
    /\ step = "starting"
    /\ pc = EntryPoint
    /\ heap = <<>>
    /\ trace = <<>>
    /\ calls = <<>>
    /\ env = [llm_raised |-> {}, places |-> <<>>, agent |-> <<>>, raised |-> {}]
    /\ returned = [done |-> FALSE, value |-> <<>>]
    /\ request = NoRequest
    /\ response = NoResponse

\* the graph runs `node` and follows its edge
RunNode(node) ==
    /\ pc = node
    /\ pc' = Edge(node)
    /\ trace' = Append(trace, node)

\* raw_places as stored: the place dicts of `results` go to the heap, in
\* order, and the lists hold their references
WithRefs(results, h) ==
    [i \in DOMAIN results |->
        [results[i] EXCEPT !.places =
            [j \in DOMAIN results[i].places |-> Len(h) + Offset(results, i) + j]]]

\* discover_places_node, had a failed web-search request made the stage
\* count as failed
discover_places_node_CallFailureRecorded ==
    /\ RunNode("discover_places")
    /\ \E rp \in [ProductiveKeys -> LLMResponses] :
         LET respOf == [k \in CategoryKeys |->
                           IF k \in ProductiveKeys THEN rp[k] ELSE LLMNoArray]
             fpOf   == [k \in CategoryKeys |-> FinalPlacesOf[location][respOf[k]]]
         IN  IF categorize_raises(selected_categories)
             THEN /\ errors' = Append(errors, <<"Discovery error: ", "TypeError">>)
                  /\ env' = [env EXCEPT !.raised = @ \cup {"discover_places"}]
                  /\ UNCHANGED <<raw_places, step, heap, calls>>
             ELSE \E results \in {categorize_places(selected_categories, fpOf)} :
                  LET searched == categories_to_search(selected_categories)
                      failed == IF location.ok
                                THEN {searched[i] : i \in
                                        {j \in DOMAIN searched :
                                            respOf[searched[j]].kind = "raise"}}
                                ELSE {}
                  IN  /\ Len(Flatten(results)) <= MaxPlaces
                      /\ raw_places' = WithRefs(results, heap)
                      /\ heap' = heap \o Flatten(results)
                      /\ step' = "discovery_complete"
                      /\ calls' = calls \o DiscoveryCalls(location, selected_categories)
                      /\ env' = [env EXCEPT !.llm_raised = failed]
                      /\ errors' = IF failed # {}
                                   THEN Append(errors, <<"Discovery error: ", "APIError">>)
                                   ELSE errors
    /\ UNCHANGED <<request, response, location, selected_categories, enriched_places, research_data,
                   final_result, returned>>

discover_places_node ==
    /\ RunNode("discover_places")
    /\ \E rp \in [ProductiveKeys -> LLMResponses] :
         LET respOf == [k \in CategoryKeys |->
                           IF k \in ProductiveKeys THEN rp[k] ELSE LLMNoArray]
             fpOf   == [k \in CategoryKeys |-> FinalPlacesOf[location][respOf[k]]]
         IN  IF categorize_raises(selected_categories)
             THEN /\ errors' = Append(errors, <<"Discovery error: ", "TypeError">>)
                  /\ env' = [env EXCEPT !.raised = @ \cup {"discover_places"}]
                  /\ UNCHANGED <<raw_places, step, heap, calls>>
             ELSE \E results \in {categorize_places(selected_categories, fpOf)} :
                  LET searched == categories_to_search(selected_categories)
                  IN  /\ Len(Flatten(results)) <= MaxPlaces
                      /\ raw_places' = WithRefs(results, heap)
                      /\ heap' = heap \o Flatten(results)
                      /\ step' = "discovery_complete"
                      /\ calls' = calls \o DiscoveryCalls(location, selected_categories)
                      /\ env' = [env EXCEPT !.llm_raised =
                                    IF location.ok
                                    THEN {searched[i] : i \in
                                            {j \in DOMAIN searched :
                                                respOf[searched[j]].kind = "raise"}}
                                    ELSE {}]
                      /\ UNCHANGED errors
    /\ UNCHANGED <<request, response, location, selected_categories, enriched_places, research_data,
                   final_result, returned>>

\* enrich_with_images_node without its try: the exception leaves graph.invoke
enrich_with_images_node_Uncaught ==
    /\ pc = "enrich_with_images"
    /\ trace' = Append(trace, "enrich_with_images")
    /\ \E resp \in [1..Len(Flatten(raw_places)) -> PlaceResponses] :
         \E r \in {enrich_places_with_images(raw_places, location, resp, heap, calls)} :
             /\ calls' = r.calls
             /\ env' = [env EXCEPT !.places = SubSeq(resp, 1, r.seen),
                                    !.raised = IF r.raised
                                               THEN @ \cup {"enrich_with_images"}
                                               ELSE @]
             /\ IF r.raised
                THEN /\ pc' = "RAISED"
                     /\ UNCHANGED <<errors, enriched_places, step, heap>>
                ELSE /\ pc' = Edge("enrich_with_images")
                     /\ enriched_places' = r.data
                     /\ heap' = r.heap
                     /\ step' = "enrichment_complete"
                     /\ UNCHANGED errors
    /\ UNCHANGED <<request, response, location, selected_categories, raw_places, research_data,
                   final_result, returned>>

\* enrich_with_images_node without the fallback of its except branch
enrich_with_images_node_NoFallback ==
    /\ RunNode("enrich_with_images")
    /\ \E resp \in [1..Len(Flatten(raw_places)) -> PlaceResponses] :
         \E r \in {enrich_places_with_images(raw_places, location, resp, heap, calls)} :
             /\ calls' = r.calls
             /\ env' = [env EXCEPT !.places = SubSeq(resp, 1, r.seen),
                                    !.raised = IF r.raised
                                               THEN @ \cup {"enrich_with_images"}
                                               ELSE @]
             /\ IF r.raised
                THEN /\ errors' = Append(errors, <<"Enrichment error: ", "AttributeError">>)
                     /\ UNCHANGED <<enriched_places, step, heap>>
                ELSE /\ enriched_places' = r.data
                     /\ heap' = r.heap
                     /\ step' = "enrichment_complete"
                     /\ UNCHANGED errors
    /\ UNCHANGED <<request, response, location, selected_categories, raw_places, research_data,
                   final_result, returned>>

\* When the service raises, the dicts it built so far are dropped: the
\* heap keeps only what the state refers to.
enrich_with_images_node ==
    /\ RunNode("enrich_with_images")
    /\ \E resp \in [1..Len(Flatten(raw_places)) -> PlaceResponses] :
         \E r \in {enrich_places_with_images(raw_places, location, resp, heap, calls)} :
             /\ calls' = r.calls
             /\ env' = [env EXCEPT !.places = SubSeq(resp, 1, r.seen),
                                    !.raised = IF r.raised
                                               THEN @ \cup {"enrich_with_images"}
                                               ELSE @]
             /\ IF r.raised
                THEN /\ errors' = Append(errors, <<"Enrichment error: ", "AttributeError">>)
                     /\ enriched_places' = raw_places
                     /\ UNCHANGED <<step, heap>>
                ELSE /\ enriched_places' = r.data
                     /\ heap' = r.heap
                     /\ step' = "enrichment_complete"
                     /\ UNCHANGED errors
    /\ UNCHANGED <<request, response, location, selected_categories, raw_places, research_data,
                   final_result, returned>>

\* add_research_node assigning a new errors list instead of appending
add_research_node_ErrorsReplaced ==
    /\ RunNode("add_research")
    /\ \E outcomes \in [overview : AgentOutcomes,
                        insights : [1..Len(enriched_places) -> AgentOutcomes]] :
         \E r \in {enrich_with_research(enriched_places, location, outcomes, heap, calls)} :
             IF r.raised
             THEN /\ errors' = <<<<"Research error: ", "TypeError">>>>
                  /\ research_data' =
                        [location_overview |-> [description |-> <<"Research unavailable">>],
                         categories |-> enriched_places]
                  /\ env' = [env EXCEPT !.agent = r.asked,
                                         !.raised = @ \cup {"add_research"}]
                  /\ calls' = r.calls
                  /\ UNCHANGED <<step, heap>>
             ELSE /\ research_data' = r.value
                  /\ heap' = r.heap
                  /\ calls' = r.calls
                  /\ step' = "research_complete"
                  /\ env' = [env EXCEPT !.agent = r.asked]
                  /\ UNCHANGED errors
    /\ UNCHANGED <<request, response, location, selected_categories, raw_places, enriched_places,
                   final_result, returned>>

add_research_node ==
    /\ RunNode("add_research")
    /\ \E outcomes \in [overview : AgentOutcomes,
                        insights : [1..Len(enriched_places) -> AgentOutcomes]] :
         \E r \in {enrich_with_research(enriched_places, location, outcomes, heap, calls)} :
             IF r.raised
             THEN /\ errors' = Append(errors, <<"Research error: ", "TypeError">>)
                  /\ research_data' =
                        [location_overview |-> [description |-> <<"Research unavailable">>],
                         categories |-> enriched_places]
                  /\ env' = [env EXCEPT !.agent = r.asked,
                                         !.raised = @ \cup {"add_research"}]
                  /\ calls' = r.calls
                  /\ UNCHANGED <<step, heap>>
             ELSE /\ research_data' = r.value
                  /\ heap' = r.heap
                  /\ calls' = r.calls
                  /\ step' = "research_complete"
                  /\ env' = [env EXCEPT !.agent = r.asked]
                  /\ UNCHANGED errors
    /\ UNCHANGED <<request, response, location, selected_categories, raw_places, enriched_places,
                   final_result, returned>>

finalize_result_node ==
    /\ RunNode("finalize_result")
    /\ final_result' = formatted_result(research_data.categories, heap)
    /\ step' = "complete"
    /\ UNCHANGED <<request, response, location, selected_categories, raw_places, enriched_places,
                   research_data, errors, heap, calls, env, returned>>

\* the return handing the recorded errors back with the result
Return_WithErrors ==
    /\ pc = "END"
    /\ ~returned.done
    /\ returned' = [done |-> TRUE,
                    value |-> IF errors = <<>> THEN final_result
                              ELSE Append(final_result,
                                          [key |-> "errors", places |-> errors])]
    /\ UNCHANGED <<request, response, pc, location, selected_categories, raw_places, enriched_places,
                   research_data, final_result, errors, step, heap, trace, calls, env>>

\* return result["final_result"]
Return ==
    /\ pc = "END"
    /\ ~returned.done
    /\ returned' = [done |-> TRUE, value |-> final_result]
    /\ UNCHANGED <<request, response, pc, location, selected_categories, raw_places, enriched_places,
                   research_data, final_result, errors, step, heap, trace, calls, env>>

Next ==
    \/ discover_places_node
    \/ enrich_with_images_node
    \/ add_research_node
    \/ finalize_result_node
    \/ Return

Spec == Init /\ [][Next]_vars

\* the graph, when its steps are taken as long as one is possible
FairSpec == Spec /\ WF_vars(Next)

(***************************************************************************)
(* Properties.                                                             *)
(***************************************************************************)
StageOrder == <<"discover_places", "enrich_with_images", "add_research",
                "finalize_result">>

\* the error strings of `errors` with the given prefix
ErrorsOf(prefix) == SelectSeq(errors, LAMBDA e : e[1] = prefix)

\* the node has run
HasRun(node) == \E i \in DOMAIN trace : trace[i] = node

\* C1: in every run the four stage nodes execute exactly once each, in the
\* order discover_places, enrich_with_images, add_research,
\* finalize_result: at every moment the nodes run so far are a prefix of
\* that order, the node to run next is the one after the prefix, and the
\* graph ends only after all four, whatever errors were recorded.
C1_FixedStageOrder ==
    /\ Len(trace) <= Len(StageOrder)
    /\ trace = SubSeq(StageOrder, 1, Len(trace))
    /\ pc = (IF Len(trace) < Len(StageOrder) THEN StageOrder[Len(trace) + 1] ELSE "END")

\* a run that recorded an error and still ran all four stages, in order
C1_Witness ==
    /\ pc = "END"
    /\ errors # <<>>
    /\ trace = StageOrder

\* the external requests that failed (raised) in the run so far
WebSearchFailed == env.llm_raised # {}
PlacesCallFailed ==
    \E i \in DOMAIN env.places :
        env.places[i].search.kind = "raise" \/ env.places[i].details.kind = "raise"
AgentCallFailed ==
    /\ env.agent # <<>>
    /\ \/ env.agent.overview = "raise"
       \/ \E i \in DOMAIN env.agent.insights : env.agent.insights[i] = "raise"

\* the run is over: generate_travel_recommendations returned final_result
\* after the finalize stage set step to "complete"
Completed ==
    /\ returned.done
    /\ returned.value = final_result
    /\ step = "complete"
    /\ HasRun("finalize_result")

\* C2: whatever external calls fail, as long as each returns or raises, a
\* run reaches the finalize stage, sets step to "complete" and returns
\* final_result to the caller; no exception leaves graph.invoke.  As an
\* invariant: a run that has not returned can always take its next step
\* (and takes at most five, the trace being a prefix of the stage order),
\* and a run that has returned has completed.
C2_RunCompletes ==
    /\ ~returned.done => ENABLED Next
    /\ returned.done => Completed

\* C2 as a temporal property of FairSpec
C2_EventuallyCompletes == <>Completed

\* a completed run in which a web search, a places request and an agent
\* call raised
C2_Witness ==
    /\ returned.done
    /\ step = "complete"
    /\ WebSearchFailed
    /\ PlacesCallFailed
    /\ AgentCallFailed

\* C3: when the service method of a stage raises, the node appends exactly
\* one error string with the stage's prefix and passes the previous
\* stage's data on: a failed discovery leaves raw_places the empty
\* mapping, a failed enrichment makes enriched_places equal raw_places, a
\* failed research makes research_data.categories equal enriched_places.
C3_FailedStagePassesThrough ==
    /\ "discover_places" \in env.raised =>
          /\ Len(ErrorsOf("Discovery error: ")) = 1
          /\ raw_places = <<>>
    /\ "enrich_with_images" \in env.raised =>
          /\ Len(ErrorsOf("Enrichment error: ")) = 1
          /\ enriched_places = raw_places
    /\ "add_research" \in env.raised =>
          /\ Len(ErrorsOf("Research error: ")) = 1
          /\ research_data.categories = enriched_places

\* the enrichment service raised on discovered places, and the node passed
\* them on
C3_Witness ==
    /\ "enrich_with_images" \in env.raised
    /\ raw_places # <<>>
    /\ enriched_places = raw_places
    /\ errors = <<<<"Enrichment error: ", "AttributeError">>>>

\* what makes each service method raise: a selection that is no list of
\* strings; a places answer of the wrong shape (a first result that is no
\* object, a null details result); a location that cannot be formatted
SelectionMalformed == selected_categories.kind = "malformed"
AnswerMalformed(pr) ==
    /\ pr.search.kind = "json"
    /\ Get(pr.search.data, "results", <<>>) # <<>>
    /\ \/ "nondict" \in DOMAIN pr.search.data.results[1]
       \/ pr.details.kind = "null"
LocationUnformattable == ~location.ok

RawFlat == Flatten(raw_places)
EnrFlat == Flatten(enriched_places)

\* the enrichment service ran and returned
EnrichmentReturned ==
    HasRun("enrich_with_images") /\ "enrich_with_images" \notin env.raised

\* the lookup of a place failed: the text search raised or found nothing
LookupFailed(pr) == search_place(pr.search) = <<>>

\* the first result of a lookup that did not fail
FirstResult(pr) == search_place(pr.search)[1]

\* the number of calls of an API made for the n-th place
CountCalls(api, n) ==
    Cardinality({i \in DOMAIN calls : calls[i].api = api /\ calls[i].idx = n})

\* the position in calls of the call of an API for the n-th place
PosOf(api, n) ==
    CHOOSE i \in DOMAIN calls : calls[i].api = api /\ calls[i].idx = n

\* C5: when the places lookup of a place fails (the text search raises or
\* returns no results) the record emitted for that place is identical to
\* the discovered record, same fields and same values, and the loop goes
\* on: the next place is still looked up, every discovered place gets a
\* record, and every place whose lookup succeeded gets the enriched fields.
C5_FailedLookupKeepsRecord ==
    EnrichmentReturned =>
        /\ Len(env.places) = Len(RawFlat)
        /\ Len(EnrFlat) = Len(RawFlat)
        /\ Keys(enriched_places) = Keys(raw_places)
        /\ \A n \in DOMAIN env.places :
              IF LookupFailed(env.places[n])
              THEN /\ heap[EnrFlat[n]] = heap[RawFlat[n]]
                   /\ n < Len(RawFlat) => CountCalls("textsearch", n + 1) = 1
              ELSE "photos" \in DOMAIN heap[EnrFlat[n]]

\* the lookup of the first place failed and the second place was enriched
C5_Witness ==
    /\ EnrichmentReturned
    /\ Len(env.places) = 2
    /\ LookupFailed(env.places[1])
    /\ env.places[1].search.kind = "raise"
    /\ ~LookupFailed(env.places[2])
    /\ "photos" \notin DOMAIN heap[EnrFlat[1]]
    /\ "photos" \in DOMAIN heap[EnrFlat[2]]

\* the positions, among the first three photo entries of a result, of the
\* entries that carry a photo_reference
RefPositions(photos) ==
    {i \in DOMAIN photos :
        i <= 3 /\ "photo_reference" \in DOMAIN photos[i]
               /\ photos[i].photo_reference # None}

\* the k-th smallest element of a set of numbers
KthOf(S, k) == CHOOSE x \in S : Cardinality({y \in S : y < x}) = k - 1

\* C6: an enriched place carries at most three photo URLs, and they are
\* the URLs of exactly those of the first three photo entries of the
\* first search result that carry a photo_reference, in their order.
C6_AtMostThreePhotos ==
    /\ \A r \in DOMAIN heap :
          "photos" \in DOMAIN heap[r] => Len(heap[r].photos) <= 3
    /\ EnrichmentReturned =>
          \A n \in DOMAIN env.places :
              ~LookupFailed(env.places[n]) =>
                  LET photos == Get(FirstResult(env.places[n]), "photos", <<>>)
                      urls   == heap[EnrFlat[n]].photos
                      pos    == RefPositions(photos)
                  IN  /\ Len(urls) = Cardinality(pos)
                      /\ \A k \in DOMAIN urls :
                            urls[k] = get_photo_url(
                                         photos[KthOf(pos, k)].photo_reference)

\* a result with four photo entries gave three URLs, and a result whose
\* first entry has no reference gave two
C6_Witness ==
    /\ EnrichmentReturned
    /\ \E n \in DOMAIN env.places :
          /\ ~LookupFailed(env.places[n])
          /\ Len(Get(FirstResult(env.places[n]), "photos", <<>>)) > 3
          /\ Len(heap[EnrFlat[n]].photos) = 3
    /\ \E n \in DOMAIN env.places :
          /\ ~LookupFailed(env.places[n])
          /\ Len(Get(FirstResult(env.places[n]), "photos", <<>>)) > 3
          /\ Len(heap[EnrFlat[n]].photos) = 2

\* C7, as stated: for every discovered place the enrichment stage issues
\* exactly one text-search call, then exactly one details call.
C7_OneSearchOneDetails ==
    HasRun("enrich_with_images") =>
        \A n \in DOMAIN RawFlat :
            /\ CountCalls("textsearch", n) = 1
            /\ CountCalls("details", n) = 1
            /\ PosOf("textsearch", n) < PosOf("details", n)

\* the lookup found a first result that carries a place_id
HasPlaceId(pr) ==
    /\ ~LookupFailed(pr)
    /\ "place_id" \in DOMAIN FirstResult(pr)
    /\ FirstResult(pr).place_id \notin {None, ""}

\* C7, amended: for every place the stage gets to, it issues exactly one
\* text-search call for the place's name; a details call follows, exactly
\* one and for the place_id of the first result, only when the search gave
\* a first result that carries a place_id, and none otherwise.  The places
\* after an answer that makes the service raise get no call, and the
\* calls are made place by place in order.
C7_OneSearchDetailsIfPlaceId ==
    HasRun("enrich_with_images") =>
        /\ EnrichmentReturned => Len(env.places) = Len(RawFlat)
        /\ \A n \in DOMAIN RawFlat :
              IF n \in DOMAIN env.places
              THEN /\ CountCalls("textsearch", n) = 1
                   /\ calls[PosOf("textsearch", n)].arg = heap[RawFlat[n]].name
                   /\ IF HasPlaceId(env.places[n])
                      THEN /\ CountCalls("details", n) = 1
                           /\ PosOf("details", n) = PosOf("textsearch", n) + 1
                           /\ calls[PosOf("details", n)].arg =
                                 <<FirstResult(env.places[n]).place_id>>
                      ELSE CountCalls("details", n) = 0
                   /\ n > 1 => PosOf("textsearch", n - 1) < PosOf("textsearch", n)
              ELSE /\ CountCalls("textsearch", n) = 0
                   /\ CountCalls("details", n) = 0

\* one place got a text search and a details call, another a text search
\* that found a result without place_id and so no details call
C7_Witness ==
    /\ EnrichmentReturned
    /\ \E n, m \in DOMAIN env.places :
          /\ HasPlaceId(env.places[n])
          /\ CountCalls("details", n) = 1
          /\ ~LookupFailed(env.places[m])
          /\ ~HasPlaceId(env.places[m])
          /\ CountCalls("textsearch", m) = 1
          /\ CountCalls("details", m) = 0

\* the fields of a discovered place record
DiscoveredFields == {"name", "description", "rating", "address", "source"}

\* C8: the record of an enriched place keeps every discovered field with
\* its value, the address alone excepted: the address is the
\* formatted_address of the first search result when the result has one
\* and the discovered address when it has none.
C8_EnrichmentKeepsDiscoveredFields ==
    EnrichmentReturned =>
        \A n \in DOMAIN env.places :
            ~LookupFailed(env.places[n]) =>
                LET d  == heap[RawFlat[n]]
                    e  == heap[EnrFlat[n]]
                    gp == FirstResult(env.places[n])
                IN  /\ DOMAIN d = DiscoveredFields
                    /\ DiscoveredFields \subseteq DOMAIN e
                    /\ \A k \in DiscoveredFields \ {"address"} : e[k] = d[k]
                    /\ e.address = IF "formatted_address" \in DOMAIN gp
                                   THEN gp.formatted_address
                                   ELSE d.address

\* a place discovered with an address was enriched from a result without
\* formatted_address, and one from a result with another address
C8_Witness ==
    /\ EnrichmentReturned
    /\ \E n \in DOMAIN env.places :
          /\ ~LookupFailed(env.places[n])
          /\ "formatted_address" \notin DOMAIN FirstResult(env.places[n])
          /\ heap[RawFlat[n]].address # ""
          /\ heap[EnrFlat[n]].address = heap[RawFlat[n]].address
    /\ \E n \in DOMAIN env.places :
          /\ ~LookupFailed(env.places[n])
          /\ "formatted_address" \in DOMAIN FirstResult(env.places[n])
          /\ heap[EnrFlat[n]].address # heap[RawFlat[n]].address

\* ---- the research stage ----

\* the research service ran and returned
ResearchReturned ==
    HasRun("add_research") /\ "add_research" \notin env.raised

\* the categories with a place, in order
WithPlaces(data) == SelectSeq(data, LAMBDA c : c.places # <<>>)

\* the first place of every category
TopPlaces(data) ==
    {WithPlaces(data)[i].places[1] : i \in DOMAIN WithPlaces(data)}

\* the agent calls the claim expects of a research over data: the overview
\* of the location, then the first place of each category in order
ExpectedAgentCalls(data, loc, h) ==
    <<[api |-> "agent", cat |-> "", idx |-> 0, arg |-> loc.text]>> \o
    [i \in DOMAIN WithPlaces(data) |->
        [api |-> "agent", cat |-> WithPlaces(data)[i].key, idx |-> 1,
         arg |-> h[WithPlaces(data)[i].places[1]].name]]

C10_AgentFailureGivesPlaceholder ==
    (HasRun("add_research") /\ env.agent # <<>>) =>
        /\ "add_research" \notin env.raised
        /\ ErrorsOf("Research error: ") = <<>>
        /\ "location_overview" \in DOMAIN research_data
        /\ env.agent.overview = "raise" =>
              research_data.location_overview.description =
                  <<"Unable to fetch detailed information about ", location.text>>
        /\ research_data.categories = enriched_places
        /\ Keys(research_data.categories) = Keys(raw_places)
        /\ \A i \in DOMAIN enriched_places :
              LET top == enriched_places[i].places[1]
              IN  /\ "ai_insights" \in DOMAIN heap[top]
                  /\ env.agent.insights[i] = "raise" =>
                        heap[top].ai_insights =
                            <<"Unable to fetch insights about ", heap[top].name>>
                  /\ env.agent.insights[i] = "ok" =>
                        heap[top].ai_insights = AgentOutput

\* the overview call and the call for the first of two categories failed,
\* the call for the second category succeeded
C10_Witness ==
    /\ ResearchReturned
    /\ Len(enriched_places) = 2
    /\ env.agent # <<>>
    /\ env.agent.overview = "raise"
    /\ env.agent.insights[1] = "raise"
    /\ env.agent.insights[2] = "ok"
    /\ heap[enriched_places[2].places[1]].ai_insights = AgentOutput

(***************************************************************************)
(* The finalize stage on its own: finalize_result_node applied to any      *)
(* research data of the shape the earlier stages hand over, categories     *)
(* without places included.                                                *)
(***************************************************************************)

\* the longest places list of a category
MaxCategoryPlaces == 2

\* place dicts as finalize_result_node may find them: enriched with two
\* photos, enriched with no photo, not enriched, and without description
FinalizeHeap ==
    << [name |-> Str_Taj, description |-> "a tomb", rating |-> "", address |-> "Agra Rd",
        source |-> "openai_web",
        photos |-> <<get_photo_url("r1"), get_photo_url("r2")>>],
       [name |-> Str_Fort, description |-> "", rating |-> "4.5", address |-> "",
        source |-> "openai_web", photos |-> <<>>],
       [name |-> Str_Taj, description |-> "a tomb", rating |-> "", address |-> "Agra Rd",
        source |-> "openai_web"],
       [name |-> Str_Fort, source |-> "openai_web"] >>

\* the places lists of a category
FinalizePlaceLists ==
    UNION { [1..n -> DOMAIN FinalizeHeap] : n \in 0..MaxCategoryPlaces }

\* the category keys of the research data, in insertion order
FinalizeKeyLists ==
    { <<"natural_attractions">>, <<"cultural_heritage">>,
      <<"natural_attractions", "cultural_heritage">>,
      <<"cultural_heritage", "natural_attractions">> }

\* research_data["categories"]
FinalizeCategories ==
    UNION { { [i \in DOMAIN ks |->
                 [key |-> ks[i], category |-> CategoryDesc(ks[i]), places |-> pl[i]]] :
              pl \in [DOMAIN ks -> FinalizePlaceLists] } : ks \in FinalizeKeyLists }

\* the state the graph hands to finalize_result_node
FinalizeInit ==
    /\ location \in {l \in Locations : l.ok}
    /\ selected_categories \in {sel \in Selections : sel.kind = "none"}
    /\ \E cats \in FinalizeCategories :
          /\ raw_places = cats
          /\ enriched_places = cats
          /\ research_data =
                [location_overview |-> get_location_info(location, "ok"),
                 categories |-> cats]
    /\ final_result = <<>>
    /\ errors = <<>>
    /\ step = "research_complete"
    /\ pc = "finalize_result"
    /\ heap = FinalizeHeap
    /\ trace = <<"discover_places", "enrich_with_images", "add_research">>
    /\ calls = <<>>
    /\ env = [llm_raised |-> {}, places |-> <<>>, agent |-> <<>>, raised |-> {}]
    /\ returned = [done |-> FALSE, value |-> <<>>]
    /\ request = NoRequest
    /\ response = NoResponse

FinalizeNext ==
    \/ finalize_result_node
    \/ Return

FinalizeSpec == FinalizeInit /\ [][FinalizeNext]_vars

\* C11: after the finalize stage, every category of research_data.categories
\* that has places appears in final_result, in the same order, with one
\* entry per place in the order of the places; each entry has exactly the
\* fields tourist_place_name (the name of the place), tourist_description
\* (its description, "" when it has none) and place_image_url (its first
\* photo URL, empty when it has no photos field or an empty one).
C11_FinalEntryPerPlace ==
    HasRun("finalize_result") =>
        LET cats == WithPlaces(research_data.categories)
        IN  /\ Keys(final_result) = Keys(cats)
            /\ \A i \in DOMAIN cats :
                  /\ Len(final_result[i].places) = Len(cats[i].places)
                  /\ \A j \in DOMAIN cats[i].places :
                        LET e == final_result[i].places[j]
                            p == heap[cats[i].places[j]]
                        IN  /\ DOMAIN e = {"tourist_place_name", "tourist_description",
                                           "place_image_url"}
                            /\ e.tourist_place_name = p.name
                            /\ e.tourist_description =
                                  (IF "description" \in DOMAIN p
                                   THEN p.description ELSE "")
                            /\ e.place_image_url =
                                  (IF "photos" \in DOMAIN p /\ Len(p.photos) > 0
                                   THEN p.photos[1] ELSE <<>>)

\* a category of two places, one with two photos and a description, one
\* without photos field and without description, gave two entries in order
C11_Witness ==
    /\ returned.done
    /\ \E i \in DOMAIN final_result :
          /\ Len(final_result[i].places) = 2
          /\ final_result[i].places[1].place_image_url = get_photo_url("r1")
          /\ final_result[i].places[1].tourist_description = "a tomb"
          /\ final_result[i].places[2].place_image_url = <<>>
          /\ final_result[i].places[2].tourist_description = ""
          /\ final_result[i].places[2].tourist_place_name = Str_Fort

\* C12: final_result maps no category to an empty list; after the finalize
\* stage a category key is in final_result exactly when the category has at
\* least one place in research_data.categories.
C12_NoEmptyCategory ==
    /\ \A i \in DOMAIN final_result : final_result[i].places # <<>>
    /\ HasRun("finalize_result") =>
          {final_result[i].key : i \in DOMAIN final_result} =
             {research_data.categories[i].key :
                 i \in {j \in DOMAIN research_data.categories :
                           Len(research_data.categories[j].places) >= 1}}

\* research data with a category without places and a category with a
\* place gave a final_result with the second category alone
C12_Witness ==
    /\ returned.done
    /\ Len(research_data.categories) = 2
    /\ research_data.categories[1].places = <<>>
    /\ research_data.categories[2].places # <<>>
    /\ Keys(final_result) = <<research_data.categories[2].key>>

(***************************************************************************)
(* categorize_places called directly, as test_web_search.py and            *)
(* discover_places_node call it, with answers of the web search that hold  *)
(* more entries than the prompt asks for.                                  *)
(***************************************************************************)

\* the longest JSON array of an answer
MaxAnswerEntries == 9

\* a name of n characters
NameOfLen(n) == [i \in 1..n |-> "a"]

\* the n entries of an answer: real places, the one at position `bad` (if
\* any) a listicle title
AnswerEntries(n, bad) ==
    [i \in 1..n |->
        IF i = bad THEN [name |-> Str_Top5, description |-> "a listicle"]
        ELSE IF i % 2 = 1
             THEN [name |-> Str_Taj, description |-> "a tomb", address |-> "Agra Rd"]
             ELSE [name |-> Str_Fort, rating |-> "4.5"]]

\* the answers to a web search of a direct call: the failures, arrays of
\* up to MaxAnswerEntries entries, and an array whose second entry has a
\* null description
CategorizeAnswers ==
    LLMFailures
    \cup { [kind |-> "text", start |-> 0, end |-> 9, json |-> "ok",
            entries |-> AnswerEntries(n, bad)] :
              n \in 0..MaxAnswerEntries, bad \in {0, 2} }
    \cup { [kind |-> "text", start |-> 0, end |-> 9, json |-> "ok",
            entries |-> <<[name |-> Str_Taj, description |-> "a tomb"],
                          [name |-> Str_Bad, description |-> None]>>] }
    \cup { [kind |-> "text", start |-> 0, end |-> 9, json |-> "ok",
            entries |-> <<[name |-> <<" ">> \o NameOfLen(79) \o <<" ">>],
                          [name |-> NameOfLen(80)],
                          [name |-> <<"A", "b", " ">>],
                          [name |-> NameOfLen(81)]>>] }

\* final_places for every location and answer of a direct call, computed once
CategorizeFinalPlaces ==
    [l \in Locations |-> [r \in CategorizeAnswers |-> final_places(l, r)]]

\* the answer to the search of each category
AnswerOf(req, k) ==
    IF k \in DOMAIN req.answers THEN req.answers[k] ELSE LLMNoArray

\* no run of the graph is under way
GraphIdle ==
    /\ pc = "IDLE"
    /\ location = [ok |-> TRUE, text |-> <<>>]
    /\ selected_categories = [kind |-> "none", keys |-> <<>>]
    /\ raw_places = <<>>
    /\ enriched_places = <<>>
    /\ research_data = <<>>
    /\ final_result = <<>>
    /\ errors = <<>>
    /\ step = "starting"
    /\ heap = <<>>
    /\ trace = <<>>
    /\ calls = <<>>
    /\ env = [llm_raised |-> {}, places |-> <<>>, agent |-> <<>>, raised |-> {}]
    /\ returned = [done |-> FALSE, value |-> <<>>]

\* the selections of a direct call: those of a run, an empty list, and a
\* list of unknown keys only
CategorizeSelections ==
    Selections \cup { [kind |-> "list", keys |-> <<>>],
                      [kind |-> "list", keys |-> <<"beaches", "nightlife">>] }

CategorizeInit ==
    /\ GraphIdle
    /\ request \in [op : {"categorize_places"},
                    location : Locations,
                    selected_categories : CategorizeSelections,
                    answers : [ProductiveKeys -> CategorizeAnswers]]
    /\ response = NoResponse

\* results = places_service.categorize_places(location, selected_categories)
categorize_places_call ==
    /\ request.op = "categorize_places"
    /\ ~response.done
    /\ LET fpOf == [k \in CategoryKeys |->
                      CategorizeFinalPlaces[request.location][AnswerOf(request, k)]]
       IN  response' =
              IF categorize_raises(request.selected_categories)
              THEN [done |-> TRUE, raised |-> TRUE, value |-> <<>>, calls |-> <<>>]
              ELSE [done |-> TRUE, raised |-> FALSE,
                    value |-> categorize_places(request.selected_categories, fpOf),
                    calls |-> DiscoveryCalls(request.location,
                                             request.selected_categories)]
    /\ UNCHANGED <<graphVars, request>>

CategorizeNext == categorize_places_call

CategorizeSpec == CategorizeInit /\ [][CategorizeNext]_vars

\* categorize_places returned a result
Categorized ==
    request.op = "categorize_places" /\ response.done /\ ~response.raised

\* C13, as stated: every category of the result of the discovery has at
\* most 8 places, whatever number of entries the answer holds.
C13_AtMostEightPlaces ==
    Categorized =>
        \A i \in DOMAIN response.value : Len(response.value[i].places) <= 8

\* the entries of an answer that holds a JSON array the filter accepts
AnswerArray(resp) ==
    IF resp.kind = "text" /\ resp.start # -1 /\ resp.end # 0 /\ resp.json = "ok"
       /\ \A i \in DOMAIN resp.entries : Get(resp.entries[i], "description", "") # None
    THEN resp.entries
    ELSE <<>>

\* C13, amended: the prompt asks for 1 to 8 places and nothing enforces it.
\* The places list of a category holds one place for every entry of the
\* answer whose name passes the name filters, in the order of the answer,
\* so it is as long as the answer makes it: at most the number of entries
\* of the answer, and more than 8 when the answer holds more.
C13_AsManyPlacesAsAnswered ==
    (Categorized /\ request.location.ok) =>
        \A i \in DOMAIN response.value :
            LET c     == response.value[i]
                es    == AnswerArray(AnswerOf(request, c.key))
                valid == SelectSeq(es, LAMBDA e :
                            /\ ~IsIrrelevant(e, request.location.text)
                            /\ PassesQuality(MakePlace(e)))
            IN  /\ Len(c.places) = Len(valid)
                /\ Len(c.places) <= Len(AnswerOf(request, c.key).entries)
                /\ \A j \in DOMAIN valid : c.places[j].name = valid[j].name

\* an answer of nine valid entries gave a category of nine places
C13_Witness ==
    /\ Categorized
    /\ \E i \in DOMAIN response.value :
          /\ Len(AnswerOf(request, response.value[i].key).entries) = 9
          /\ Len(response.value[i].places) = 9

(***************************************************************************)
(* filter_irrelevant_results called directly on lists of places.           *)
(***************************************************************************)

\* the longest list of places handed to the filter
MaxFilterPlaces == 4

Str_2025 == <<"2","0","2","5">>

\* names the filter must keep: of 3 and of 80 characters, padded with
\* whitespace, and near misses of the patterns ("Top five", "Stop 5",
\* "Taj UPDATED 202", "Taj..", "Fort Goa", "Best of Taj")
KeptNames ==
    << Str_Taj,
       NameOfLen(80),
       <<" ", " ">> \o Str_Taj \o <<" ", "\n">>,
       <<"T","o","p"," ","f","i","v","e">>,
       <<"S">> \o P_top \o <<"5">>,
       Str_Taj \o <<" ","U","P","D","A","T","E","D"," ","2","0","2">>,
       Str_Taj \o <<".", ".">>,
       <<"F","o","r","t"," ">> \o Str_Goa,
       <<"B","e","s","t"," ","o","f"," ">> \o Str_Taj >>

\* names the filter must drop: too short, too long, each irrelevant
\* pattern (in the case of the pattern or another), a generic location
\* phrase, an ellipsis
DroppedNames ==
    << <<"A", "b">>,
       <<" ", "A", "b", " ">>,
       <<>>,
       NameOfLen(81),
       <<"T","H","E"," ","1","0"," ","B","E","S","T"," ">> \o Str_Goa,
       Str_Top5,
       <<"t","o","p"," ","1","0"," ">> \o Str_Goa,
       <<"B","e","s","t"," ","5">>,
       <<"1","0"," ","B","e","s","t">>,
       <<"1","."," ">> \o Str_Taj,
       Str_Taj \o <<" ","U","P","D","A","T","E","D"," ">> \o Str_2025,
       Str_Taj \o <<" ","-"," ","S","t","u","d","e","n","t","s">>,
       Str_Taj \o <<" ","n","e","a","r"," ","m","e">>,
       Str_Taj \o <<" ","M","a","n","u","f","a","c","t","u","r","e","r","s">>,
       Str_Taj \o <<" ","S","u","p","p","l","i","e","r">>,
       <<"T","o","u","r","s"," ","i","n"," ","x">>,
       <<"A","c","t","i","v","i","t","i","e","s"," ","i","n"," ","x">>,
       <<"T","h","i","n","g","s"," ","t","o"," ","D","o">>,
       Str_Goa \o <<" ","G","u","i","d","e">>,
       <<"e","x","p","l","o","r","e"," ","g","o","a">>,
       Str_Goa \o <<" ","-"," ">> \o Str_Taj,
       Str_Taj \o <<".", ".", ".">> >>

\* the places the filter is tried on: kept and dropped names in turn, then
\* a place without a name and a place whose description is null
FilterPlaces ==
    [i \in 1..(2 * Len(DroppedNames)) |->
        IF i % 2 = 1
        THEN [name |-> DroppedNames[(i + 1) \div 2], description |-> "d"]
        ELSE [name |-> KeptNames[((i \div 2 - 1) % Len(KeptNames)) + 1],
              description |-> "k", address |-> "addr"]]
    \o << [description |-> "no name"],
          [name |-> Str_Taj, description |-> None] >>

FilterInit ==
    /\ GraphIdle
    /\ \E i \in DOMAIN FilterPlaces, n \in 0..MaxFilterPlaces :
          /\ i + n - 1 <= Len(FilterPlaces)
          /\ request = [op |-> "filter_irrelevant_results",
                        places |-> SubSeq(FilterPlaces, i, i + n - 1),
                        location |-> Str_Goa]
    /\ response = NoResponse

\* self.filter_irrelevant_results(places, location)
filter_irrelevant_results_call ==
    /\ request.op = "filter_irrelevant_results"
    /\ ~response.done
    /\ response' =
          IF FilterRaises(request.places)
          THEN [done |-> TRUE, raised |-> TRUE, value |-> <<>>]
          ELSE [done |-> TRUE, raised |-> FALSE,
                value |-> filter_irrelevant_results(request.places, request.location)]
    /\ UNCHANGED <<graphVars, request>>

FilterNext == filter_irrelevant_results_call

FilterSpec == FilterInit /\ [][FilterNext]_vars

\* the filter returned a list
Filtered ==
    request.op = "filter_irrelevant_results" /\ response.done /\ ~response.raised

\* the condition of the claim on one place
Retained(place, loc) ==
    LET name == Strip(IF "name" \in DOMAIN place THEN place.name ELSE <<>>)
    IN  /\ Len(name) >= 3
        /\ Len(name) <= 80
        /\ ~MatchesIrrelevantPattern(name)
        /\ ~MatchesLocationGeneric(name, loc)
        /\ ~Contains(name, P_ellipsis)

\* the elements of a sequence
Range(seq) == {seq[i] : i \in DOMAIN seq}

SearchedKeys == [i \in DOMAIN response.calls |-> response.calls[i].cat]

\* C15: categorize_places only produces keys of CATEGORIES.  With a
\* selection the searched keys are the selected keys that exist in
\* CATEGORIES, each searched once, unknown keys causing no search, and the
\* keys of the result are among them; without a selection (None or an
\* empty list) every key of CATEGORIES is searched exactly once, in the
\* order of CATEGORIES; and every returned place has source "openai_web".
\* (Stated for a location the prompt can be built from, so that every
\* search issues its request.)
C15_OnlyCategoryKeys ==
    (Categorized /\ request.location.ok) =>
        LET sel    == request.selected_categories
            result == Range(Keys(response.value))
        IN  /\ result \subseteq CategoryKeys
            /\ result \subseteq Range(SearchedKeys)
            /\ Len(SearchedKeys) = Cardinality(Range(SearchedKeys))
            /\ Len(Keys(response.value)) = Cardinality(result)
            /\ IF sel.kind = "list" /\ Len(sel.keys) > 0
               THEN /\ Range(SearchedKeys) = Range(sel.keys) \cap CategoryKeys
                    /\ result \subseteq Range(sel.keys)
               ELSE SearchedKeys = [i \in DOMAIN CATEGORIES |-> CATEGORIES[i].key]
            /\ \A i \in DOMAIN response.value :
                  \A j \in DOMAIN response.value[i].places :
                      response.value[i].places[j].source = "openai_web"

\* a selection with an unknown key and a repeated key gave two searches
\* and a result with the two known keys
C15_Witness ==
    /\ Categorized
    /\ request.location.ok
    /\ "beaches" \in Range(request.selected_categories.keys)
    /\ Len(request.selected_categories.keys) = 4
    /\ Len(response.calls) = 2
    /\ Range(Keys(response.value)) = {"cultural_heritage", "natural_attractions"}

\* the web search of a category failed: the request raised, the text holds
\* no JSON array, the array does not parse, or the filter raised on it
AnswerFailed(resp) ==
    \/ resp.kind = "raise"
    \/ resp.start = -1
    \/ resp.end = 0
    \/ resp.json = "JSONDecodeError"
    \/ \E i \in DOMAIN resp.entries : Get(resp.entries[i], "description", "") = None

\* the places of category k in a result ([] when the key is absent)
PlacesOf(value, k) ==
    IF \E i \in DOMAIN value : value[i].key = k
    THEN value[CHOOSE i \in DOMAIN value : value[i].key = k].places
    ELSE <<>>

\* the result of the same call had the search of category j been answered a
AltResult(j, a) ==
    categorize_places(request.selected_categories,
        [x \in CategoryKeys |->
            CategorizeFinalPlaces[request.location]
                [IF x = j THEN a ELSE AnswerOf(request, x)]])

\* C20: a failure of the web search of one category (the request, the
\* parsing of its answer or the filtering) leaves that category alone
\* without places: the category is absent from the result, and the places
\* of every other searched category are what they are whatever the search
\* of that category is answered, a good answer included.
C20_FailureIsolatedPerCategory ==
    (Categorized /\ request.location.ok) =>
        \A k \in Range(SearchedKeys) :
            /\ AnswerFailed(AnswerOf(request, k)) =>
                  k \notin Range(Keys(response.value))
            /\ \A j \in ProductiveKeys \ {k} :
                  \A a \in CategorizeAnswers :
                      PlacesOf(AltResult(j, a), k) = PlacesOf(response.value, k)

\* the search of the first category raised, the one of the second gave
\* places, and the result holds the second category alone
C20_Witness ==
    /\ Categorized
    /\ request.location.ok
    /\ SearchedKeys[1] = "natural_attractions"
    /\ request.answers["natural_attractions"].kind = "raise"
    /\ ~AnswerFailed(request.answers["cultural_heritage"])
    /\ Keys(response.value) = <<"cultural_heritage">>
    /\ Len(response.value[1].places) > 1

(***************************************************************************)
(* api.py: the two recommendation endpoints.  A category string is the     *)
(* sequence of its tokens, a token being a blank or a whole word (a        *)
(* category key or another word); a query string has "," tokens as well.   *)
(* The pipeline is the call of generate_travel_recommendations, which      *)
(* returns a dict or, for the handler's sake, raises.                      *)
(***************************************************************************)

\* the longest categories list of a POST body
MaxApiCategories == 2
\* the longest categories query string of a GET, in tokens
MaxQueryTokens == 3

\* cat in CATEGORIES
IsCategoryKey(cat) == Len(cat) = 1 /\ cat[1] \in CategoryKeys

\* category_keys[0], category_keys[1], category_keys[2]
DefaultCategories == [i \in 1..3 |-> <<CATEGORIES[i].key>>]

RECURSIVE SplitComma(_)
\* categories.split(',')
SplitComma(q) ==
    IF \A i \in DOMAIN q : q[i] # "," THEN <<q>>
    ELSE LET c == CHOOSE i \in DOMAIN q :
                     q[i] = "," /\ \A j \in 1..(i - 1) : q[j] # ","
         IN  <<SubSeq(q, 1, c - 1)>> \o SplitComma(SubSeq(q, c + 1, Len(q)))

\* [cat.strip() for cat in categories.split(',') if cat.strip()]
category_list(q) ==
    LET parts    == SplitComma(q)
        stripped == [i \in DOMAIN parts |-> Strip(parts[i])]
    IN  SelectSeq(stripped, LAMBDA c : c # <<>>)

\* the handler validating the place name before stripping it only
recommendations_handler_NoStrip(place_name, categories, outcome) ==
    IF place_name = <<>>
    THEN [done |-> TRUE, status |-> 400, body |-> <<>>, pipeline |-> <<>>]
    ELSE
    LET name == Strip(place_name)
        asked == categories.kind = "list" /\ categories.keys # <<>>
        invalid_categories ==
            IF asked THEN SelectSeq(categories.keys, LAMBDA c : ~IsCategoryKey(c))
            ELSE <<>>
        selected == IF asked THEN categories.keys ELSE DefaultCategories
        call == [location |-> name, selected_categories |-> selected,
                 raised |-> outcome.kind = "raise"]
    IN  IF invalid_categories # <<>>
        THEN [done |-> TRUE, status |-> 400, body |-> <<>>, pipeline |-> <<>>]
        ELSE IF outcome.kind = "raise"
        THEN [done |-> TRUE, status |-> 500, body |-> <<>>, pipeline |-> <<call>>]
        ELSE [done |-> TRUE, status |-> 200, pipeline |-> <<call>>,
              body |-> [place_name |-> name, selected_categories |-> selected,
                        recommendations |-> outcome.value]]

\* the handler with every category as the default selection
recommendations_handler_AllByDefault(place_name, categories, outcome) ==
    IF Strip(place_name) = <<>>
    THEN [done |-> TRUE, status |-> 400, body |-> <<>>, pipeline |-> <<>>]
    ELSE
    LET name == Strip(place_name)
        asked == categories.kind = "list" /\ categories.keys # <<>>
        invalid_categories ==
            IF asked THEN SelectSeq(categories.keys, LAMBDA c : ~IsCategoryKey(c))
            ELSE <<>>
        selected == IF asked THEN categories.keys
                    ELSE [i \in DOMAIN CATEGORIES |-> <<CATEGORIES[i].key>>]
        call == [location |-> name, selected_categories |-> selected,
                 raised |-> outcome.kind = "raise"]
    IN  IF invalid_categories # <<>>
        THEN [done |-> TRUE, status |-> 400, body |-> <<>>, pipeline |-> <<>>]
        ELSE IF outcome.kind = "raise"
        THEN [done |-> TRUE, status |-> 500, body |-> <<>>, pipeline |-> <<call>>]
        ELSE [done |-> TRUE, status |-> 200, pipeline |-> <<call>>,
              body |-> [place_name |-> name, selected_categories |-> selected,
                        recommendations |-> outcome.value]]

\* the body of get_travel_recommendations(request): the HTTP status, the
\* response body and the calls of the pipeline it made, given how the
\* pipeline ends when it is called
recommendations_handler(place_name, categories, outcome) ==
    IF Strip(place_name) = <<>>
    THEN [done |-> TRUE, status |-> 400, body |-> <<>>, pipeline |-> <<>>]
    ELSE
    LET name == Strip(place_name)
        asked == categories.kind = "list" /\ categories.keys # <<>>
        invalid_categories ==
            IF asked THEN SelectSeq(categories.keys, LAMBDA c : ~IsCategoryKey(c))
            ELSE <<>>
        selected == IF asked THEN categories.keys ELSE DefaultCategories
        call == [location |-> name, selected_categories |-> selected,
                 raised |-> outcome.kind = "raise"]
    IN  IF invalid_categories # <<>>
        THEN [done |-> TRUE, status |-> 400, body |-> <<>>, pipeline |-> <<>>]
        ELSE IF outcome.kind = "raise"
        THEN [done |-> TRUE, status |-> 500, body |-> <<>>, pipeline |-> <<call>>]
        ELSE [done |-> TRUE, status |-> 200, pipeline |-> <<call>>,
              body |-> [place_name |-> name, selected_categories |-> selected,
                        recommendations |-> outcome.value]]

\* place names: empty, blank, a name, a padded name
ApiPlaceNames ==
    { <<>>, <<" ", " ">>, Str_Goa, <<" ">> \o Str_Goa \o <<" ">> }

\* category strings of a POST body: keys, an unknown word, a padded key
ApiCategoryStrings ==
    { <<"natural_attractions">>, <<"special_interest">>, <<"beaches">>,
      <<" ", "natural_attractions">> }

\* the categories of a POST body: absent (None) or a list
ApiCategoryLists ==
    { [kind |-> "none", keys |-> <<>>] } \cup
    { [kind |-> "list", keys |-> ks] :
        ks \in UNION { [1..n -> ApiCategoryStrings] : n \in 0..MaxApiCategories } }

\* the categories query parameter of a GET: absent or a string
ApiQueryTokens == { ",", " ", "natural_attractions", "beaches" }
ApiQueries ==
    { [kind |-> "none", text |-> <<>>] } \cup
    { [kind |-> "str", text |-> q] :
        q \in UNION { [1..n -> ApiQueryTokens] : n \in 0..MaxQueryTokens } }

\* how generate_travel_recommendations ends
PipelineOutcomes ==
    { [kind |-> "return", value |-> <<>>],
      [kind |-> "return",
       value |-> <<[key |-> "natural_attractions",
                    places |-> <<[tourist_place_name |-> Str_Taj,
                                  tourist_description |-> "a tomb",
                                  place_image_url |-> <<>>]>>]>>],
      [kind |-> "raise", value |-> <<>>] }

ApiInit ==
    /\ GraphIdle
    /\ \/ request \in [op : {"POST /recommendations"},
                       place_name : ApiPlaceNames,
                       categories : ApiCategoryLists]
       \/ request \in [op : {"GET /recommendations/{place_name}"},
                       place_name : ApiPlaceNames \ {<<>>},
                       categories : ApiQueries]
    /\ response = NoResponse

\* POST /recommendations
get_travel_recommendations ==
    /\ request.op = "POST /recommendations"
    /\ ~response.done
    /\ \E outcome \in PipelineOutcomes :
          response' = recommendations_handler(request.place_name,
                                              request.categories, outcome)
    /\ UNCHANGED <<graphVars, request>>

\* GET /recommendations/{place_name}
get_recommendations_by_path ==
    /\ request.op = "GET /recommendations/{place_name}"
    /\ ~response.done
    /\ LET category_list_ ==
              IF request.categories.kind = "str" /\ request.categories.text # <<>>
              THEN [kind |-> "list", keys |-> category_list(request.categories.text)]
              ELSE [kind |-> "none", keys |-> <<>>]
       IN  \E outcome \in PipelineOutcomes :
              response' = recommendations_handler(request.place_name,
                                                  category_list_, outcome)
    /\ UNCHANGED <<graphVars, request>>

ApiNext ==
    \/ get_travel_recommendations
    \/ get_recommendations_by_path

ApiSpec == ApiInit /\ [][ApiNext]_vars

\* the request is a POST and has been answered
PostAnswered == request.op = "POST /recommendations" /\ response.done

\* the place name is empty or whitespace only
NameBlank == \A i \in DOMAIN request.place_name : request.place_name[i] \in Whitespace

\* a requested category of the POST body is no key of CATEGORIES
SomeCategoryUnknown ==
    \E i \in DOMAIN request.categories.keys :
        \A k \in CategoryKeys : request.categories.keys[i] # <<k>>

\* C16: POST /recommendations answers 400 when place_name is empty or
\* whitespace only, or when a requested category is no key of CATEGORIES,
\* and in both cases the pipeline is not called; when the pipeline, once
\* called, raises, the answer is 500; and an answer is 200 only after one
\* call of the pipeline that returned.
C16_BadRequestRejected ==
    PostAnswered =>
        /\ (NameBlank \/ SomeCategoryUnknown) =>
              (response.status = 400 /\ response.pipeline = <<>>)
        /\ response.status \in {200, 400, 500}
        /\ response.status = 400 => response.pipeline = <<>>
        /\ response.status # 400 => Len(response.pipeline) = 1
        /\ response.status = 500 <=>
              (response.pipeline # <<>> /\ response.pipeline[1].raised)
        /\ response.status = 200 <=> response.body # <<>>

\* a POST with a proper place name, a known and an unknown category was
\* answered 400 without a call of the pipeline
C16_Witness ==
    /\ PostAnswered
    /\ response.status = 400
    /\ response.pipeline = <<>>
    /\ ~NameBlank
    /\ Len(request.categories.keys) = 2
    /\ request.categories.keys[1] = <<"natural_attractions">>
    /\ request.categories.keys[2] = <<"beaches">>

\* the request carries no categories: absent or empty, on either endpoint
NoCategories ==
    IF request.op = "POST /recommendations"
    THEN request.categories.keys = <<>>
    ELSE request.op = "GET /recommendations/{place_name}"
         /\ request.categories.text = <<>>

\* C17: a request without categories (absent or empty, POST or GET) and
\* with a proper place name runs the pipeline once, with exactly the first
\* three keys of CATEGORIES; and the selected_categories of every 200
\* response is the list that was passed to the pipeline.
C17_DefaultCategories ==
    (request.op # "generate_travel_recommendations" /\ response.done) =>
        /\ (NoCategories /\ ~NameBlank) =>
              /\ Len(response.pipeline) = 1
              /\ response.pipeline[1].selected_categories =
                    << <<"natural_attractions">>, <<"cultural_heritage">>,
                       <<"urban_modern">> >>
        /\ response.status = 200 =>
              response.body.selected_categories =
                 response.pipeline[1].selected_categories

\* a GET with an empty categories parameter was answered 200 with the
\* three default categories
C17_Witness ==
    /\ request.op = "GET /recommendations/{place_name}"
    /\ response.done
    /\ request.categories = [kind |-> "str", text |-> <<>>]
    /\ response.status = 200
    /\ Len(response.body.selected_categories) = 3
    /\ response.body.selected_categories[3] = <<"urban_modern">>

(***************************************************************************)
(* Dates of the booking tools.  A date string is the record of its three   *)
(* numbers, or a text that is not of the form Y-M-D; the clock is a date   *)
(* and whether the time of day is exactly midnight.                        *)
(***************************************************************************)
IsLeap(y) == (y % 4 = 0 /\ y % 100 # 0) \/ y % 400 = 0

DaysInMonth(y, m) ==
    IF m = 2 THEN (IF IsLeap(y) THEN 29 ELSE 28)
    ELSE IF m \in {4, 6, 9, 11} THEN 30 ELSE 31

\* datetime.strptime(v, "%Y-%m-%d"): the date, or ValueError
strptime(v) ==
    IF /\ v.kind = "ymd"
       /\ v.m \in 1..12
       /\ v.d \in 1..DaysInMonth(v.y, v.m)
    THEN [ok |-> TRUE, y |-> v.y, m |-> v.m, d |-> v.d]
    ELSE [ok |-> FALSE, y |-> 0, m |-> 0, d |-> 0]

\* the order of dates
DateKey(dt) == dt.y * 10000 + dt.m * 100 + dt.d

Ymd(y, m, d) == [kind |-> "ymd", y |-> y, m |-> m, d |-> d]

\* the date strings handed to the tools: the day before the clock's day,
\* that day, the day after, a leap day, no day of its month, no month, and
\* a text in another format
ToolDates ==
    { Ymd(2026, 11, 5), Ymd(2026, 11, 6), Ymd(2026, 11, 7), Ymd(2028, 2, 29),
      Ymd(2027, 2, 29), Ymd(2026, 13, 1),
      [kind |-> "text", y |-> 0, m |-> 0, d |-> 0] }

\* datetime.now()
ToolClocks == { [y |-> 2026, m |-> 11, d |-> 6, midnight |-> b] : b \in BOOLEAN }

(***************************************************************************)
(* server/hotels.py: the search_hotels tool.                               *)
(***************************************************************************)
\* the strings returned, without the mark that opens each of them
ErrOrder  == "Error: Check-in date must be before check-out date"
ErrPast   == "Error: Check-in date cannot be in the past"
ErrFormat == "Error: Invalid date format. Please use YYYY-MM-DD format (e.g., 2025-06-27)"

\* what search_hotels_api and format_hotels_response make of the answer
HotelApiResults == { "Found hotels", "Error: Request failed", "No hotels found" }

\* search_hotels accepting a stay of no night
search_hotels_tool_SameDayStay(req, api_result) ==
    LET checkin  == strptime(req.checkin_date)
        checkout == strptime(req.checkout_date)
    IN  IF ~checkin.ok \/ ~checkout.ok
        THEN [done |-> TRUE, value |-> ErrFormat, requests |-> <<>>]
        ELSE IF DateKey(checkin) > DateKey(checkout)
        THEN [done |-> TRUE, value |-> ErrOrder, requests |-> <<>>]
        ELSE IF \/ DateKey(checkin) < DateKey(req.now)
                \/ (DateKey(checkin) = DateKey(req.now) /\ ~req.now.midnight)
        THEN [done |-> TRUE, value |-> ErrPast, requests |-> <<>>]
        ELSE [done |-> TRUE, value |-> api_result,
              requests |-> <<[location |-> req.location,
                              checkin_date |-> req.checkin_date,
                              checkout_date |-> req.checkout_date]>>]

\* search_hotels(location, checkin_date, checkout_date) run at req.now:
\* the string it returns and the API requests it made.  checkin is the
\* midnight that starts the check-in day, compared with the clock.
search_hotels_tool(req, api_result) ==
    LET checkin  == strptime(req.checkin_date)
        checkout == strptime(req.checkout_date)
    IN  IF ~checkin.ok \/ ~checkout.ok
        THEN [done |-> TRUE, value |-> ErrFormat, requests |-> <<>>]
        ELSE IF DateKey(checkin) >= DateKey(checkout)
        THEN [done |-> TRUE, value |-> ErrOrder, requests |-> <<>>]
        ELSE IF \/ DateKey(checkin) < DateKey(req.now)
                \/ (DateKey(checkin) = DateKey(req.now) /\ ~req.now.midnight)
        THEN [done |-> TRUE, value |-> ErrPast, requests |-> <<>>]
        ELSE [done |-> TRUE, value |-> api_result,
              requests |-> <<[location |-> req.location,
                              checkin_date |-> req.checkin_date,
                              checkout_date |-> req.checkout_date]>>]

HotelInit ==
    /\ GraphIdle
    /\ request \in [op : {"search_hotels"},
                    location : {"goa"},
                    checkin_date : ToolDates,
                    checkout_date : ToolDates,
                    now : ToolClocks]
    /\ response = NoResponse

search_hotels ==
    /\ request.op = "search_hotels"
    /\ ~response.done
    /\ \E api_result \in HotelApiResults :
          response' = search_hotels_tool(request, api_result)
    /\ UNCHANGED <<graphVars, request>>

HotelNext == search_hotels

HotelSpec == HotelInit /\ [][HotelNext]_vars

\* a date string is a real date written Y-M-D
IsDate(v) ==
    /\ v.kind = "ymd"
    /\ v.m >= 1 /\ v.m <= 12
    /\ v.d >= 1
    /\ v.d <= (IF v.m = 2 THEN (IF IsLeap(v.y) THEN 29 ELSE 28)
               ELSE IF v.m \in {4, 6, 9, 11} THEN 30 ELSE 31)

\* v is a day before w
Before(v, w) ==
    \/ v.y < w.y
    \/ (v.y = w.y /\ v.m < w.m)
    \/ (v.y = w.y /\ v.m = w.m /\ v.d < w.d)

\* the condition of the claim on the dates of a hotel search
HotelDatesFine ==
    /\ IsDate(request.checkin_date)
    /\ IsDate(request.checkout_date)
    /\ Before(request.checkin_date, request.checkout_date)
    /\ ~Before(request.checkin_date, request.now)

\* C18: search_hotels issues the hotel-search request only when both dates
\* parse, the check-in day is before the check-out day and the check-in day
\* is not in the past; otherwise it returns an error string and issues no
\* request.  (It issues at most one request, for the dates as given; and a
\* check-in on the clock's own day is turned down as well, unless the
\* clock shows midnight exactly.)
C18_HotelRequestOnlyForValidDates ==
    (request.op = "search_hotels" /\ response.done) =>
        /\ response.requests # <<>> => HotelDatesFine
        /\ ~HotelDatesFine =>
              /\ response.requests = <<>>
              /\ response.value \in {ErrOrder, ErrPast, ErrFormat}
        /\ Len(response.requests) <= 1
        /\ response.requests # <<>> <=>
              /\ HotelDatesFine
              /\ \/ Before(request.now, request.checkin_date)
                 \/ request.now.midnight

\* a search for a stay from tomorrow to a later leap day issued its
\* request
C18_Witness ==
    /\ request.op = "search_hotels"
    /\ response.done
    /\ request.checkin_date = Ymd(2026, 11, 7)
    /\ request.checkout_date = Ymd(2028, 2, 29)
    /\ Len(response.requests) = 1
    /\ response.requests[1].checkin_date = request.checkin_date
    /\ response.value = "Found hotels"

(***************************************************************************)
(* server/flight_search.py: the search_flights tool.  The passenger and    *)
(* locale arguments other than adults keep their defaults.                 *)
(***************************************************************************)
valid_classes == {"ECONOMY", "PREMIUM_ECONOMY", "BUSINESS", "FIRST"}

ErrValidation  == "Error: validation error for FlightSearchRequest"
ErrDeparture   == "Error: Could not find departure airport"
ErrArrival     == "Error: Could not find arrival airport"

\* s.strip(chars)
StripSet(s, chars) ==
    LET keep == {i \in DOMAIN s : s[i] \notin chars}
    IN  IF keep = {} THEN <<>>
        ELSE LET lo == CHOOSE i \in keep : \A j \in keep : i <= j
                 hi == CHOOSE i \in keep : \A j \in keep : j <= i
             IN  SubSeq(s, lo, hi)

\* location.strip().strip('"').strip("'")
CleanLocation(s) == StripSet(StripSet(Strip(s), {"\""}), {"'"})

\* len(s) == 3 and s.isupper()
IsAirportCode(s) ==
    /\ Len(s) = 3
    /\ \E i \in DOMAIN s : \E k \in DOMAIN UpperCase : UpperCase[k] = s[i]
    /\ \A i \in DOMAIN s : \A k \in DOMAIN LowerCase : LowerCase[k] # s[i]

\* the validation accepting the clock's own day
FlightRequestValid_TodayAllowed(req) ==
    LET outbound_dt == strptime(req.outbound_date)
    IN  /\ outbound_dt.ok
        /\ ~(DateKey(outbound_dt) < DateKey(req.now))
        /\ req.travel_class \in valid_classes
        /\ req.adults >= 1

\* FlightSearchRequest(...): whether the validation passes.  The outbound
\* date must parse and its day be after the clock's day.
FlightRequestValid(req) ==
    LET outbound_dt == strptime(req.outbound_date)
    IN  /\ outbound_dt.ok
        /\ ~(DateKey(outbound_dt) <= DateKey(req.now))
        /\ req.travel_class \in valid_classes
        /\ req.adults >= 1

\* search_flights_api resolving both airports before it looks at what the
\* departure lookup found
search_flights_api_BothLookupsFirst(req, ans) ==
    LET departure_clean == CleanLocation(req.departure_location)
        arrival_clean   == CleanLocation(req.arrival_location)
        dep_lookup == ~IsAirportCode(departure_clean)
        arr_lookup == ~IsAirportCode(arrival_clean)
        r1 == IF dep_lookup
              THEN <<[api |-> "searchAirport", query |-> departure_clean]>>
              ELSE <<>>
        r2 == IF arr_lookup
              THEN Append(r1, [api |-> "searchAirport", query |-> arrival_clean])
              ELSE r1
        r3 == Append(r2, [api |-> "searchFlights",
                          outbound_date |-> req.outbound_date,
                          travel_class |-> req.travel_class,
                          adults |-> req.adults])
    IN  IF dep_lookup /\ ans.departure = "none"
        THEN [value |-> ErrDeparture, requests |-> r2]
        ELSE IF arr_lookup /\ ans.arrival = "none"
        THEN [value |-> ErrArrival, requests |-> r2]
        ELSE [value |-> ans.flights, requests |-> r3]

\* search_flights_api(request) and format_flight_results: the string
\* returned and the requests made, given what the airport lookups and the
\* flight search answer
search_flights_api(req, ans) ==
    LET departure_clean == CleanLocation(req.departure_location)
        arrival_clean   == CleanLocation(req.arrival_location)
        dep_lookup == ~IsAirportCode(departure_clean)
        arr_lookup == ~IsAirportCode(arrival_clean)
        r1 == IF dep_lookup
              THEN <<[api |-> "searchAirport", query |-> departure_clean]>>
              ELSE <<>>
        r2 == IF arr_lookup
              THEN Append(r1, [api |-> "searchAirport", query |-> arrival_clean])
              ELSE r1
        r3 == Append(r2, [api |-> "searchFlights",
                          outbound_date |-> req.outbound_date,
                          travel_class |-> req.travel_class,
                          adults |-> req.adults])
    IN  IF dep_lookup /\ ans.departure = "none"
        THEN [value |-> ErrDeparture, requests |-> r1]
        ELSE IF arr_lookup /\ ans.arrival = "none"
        THEN [value |-> ErrArrival, requests |-> r2]
        ELSE [value |-> ans.flights, requests |-> r3]

\* search_flights(...): everything sits in one try/except Exception
search_flights_tool(req, ans) ==
    IF ~FlightRequestValid(req)
    THEN [done |-> TRUE, raised |-> FALSE, value |-> ErrValidation, requests |-> <<>>]
    ELSE [done |-> TRUE, raised |-> FALSE,
          value |-> search_flights_api(req, ans).value,
          requests |-> search_flights_api(req, ans).requests]

\* what the airport lookups and the flight search give
FlightAnswers ==
    [departure : {"found", "none"}, arrival : {"found", "none"},
     flights : {"ONE-WAY FLIGHTS", "Error: Request failed", "No flight data available"}]

Str_BOM    == <<"B","O","M">>
Str_Mumbai == <<"\"","M","u","m","b","a","i","\"">>
Str_DEL    == <<" ","D","E","L"," ">>
Str_Del    == <<"D","e","l">>

FlightInit ==
    /\ GraphIdle
    /\ request \in [op : {"search_flights"},
                    departure_location : {Str_BOM, Str_Mumbai},
                    arrival_location : {Str_DEL, Str_Del},
                    outbound_date : ToolDates,
                    travel_class : {"ECONOMY", "FIRST", "economy", "COACH"},
                    adults : {0, 1, 2},
                    now : ToolClocks]
    /\ response = NoResponse

search_flights ==
    /\ request.op = "search_flights"
    /\ ~response.done
    /\ \E ans \in FlightAnswers :
          response' = search_flights_tool(request, ans)
    /\ UNCHANGED <<graphVars, request>>

FlightNext == search_flights

FlightSpec == FlightInit /\ [][FlightNext]_vars

\* the arguments the claim is about are not all fine
FlightArgumentsBad ==
    \/ ~IsDate(request.outbound_date)
    \/ ~Before(request.now, request.outbound_date)
    \/ request.travel_class \notin {"ECONOMY", "PREMIUM_ECONOMY", "BUSINESS", "FIRST"}
    \/ request.adults < 1

\* C19: whenever outbound_date is no valid date after today (today is not
\* after today), travel_class is none of the four classes or adults is
\* less than 1, search_flights returns an error string, does not raise,
\* and makes no airport lookup and no flight search; and a call that makes
\* a request has none of these faults.
C19_FlightRequestOnlyForValidArguments ==
    (request.op = "search_flights" /\ response.done) =>
        /\ ~response.raised
        /\ FlightArgumentsBad =>
              /\ response.value = ErrValidation
              /\ response.requests = <<>>
        /\ response.requests # <<>> => ~FlightArgumentsBad

\* a search for today's date, with a valid class and one adult, returned
\* the validation error without a request
C19_Witness ==
    /\ request.op = "search_flights"
    /\ response.done
    /\ request.outbound_date = Ymd(2026, 11, 6)
    /\ request.travel_class = "ECONOMY"
    /\ request.adults = 1
    /\ response.value = ErrValidation
    /\ response.requests = <<>>

\* C21: every place of the result of the discovery has a stripped name of
\* at least 3 and at most 79 characters: the filter drops the names under
\* 3 and over 80 characters, the quality filter of categorize_places those
\* of 80.
C21_NameLengthBounds ==
    Categorized =>
        \A i \in DOMAIN response.value :
            \A j \in DOMAIN response.value[i].places :
                LET name == Strip(response.value[i].places[j].name)
                IN  Len(name) >= 3 /\ Len(name) <= 79

\* an answer with names of 79 (padded), 80, 2 and 81 characters gave a
\* category with the name of 79 characters alone
C21_Witness ==
    /\ Categorized
    /\ \E k \in ProductiveKeys :
          /\ Len(request.answers[k].entries) = 4
          /\ request.answers[k].entries[2].name = NameOfLen(80)
          /\ Len(PlacesOf(response.value, k)) = 1
          /\ Len(PlacesOf(response.value, k)[1].name) = 81
          /\ Len(Strip(PlacesOf(response.value, k)[1].name)) = 79

\* exactly three upper-case characters once the whitespace is trimmed
ThreeUpperCase(s) ==
    /\ Len(Strip(s)) = 3
    /\ \A i \in DOMAIN Strip(s) : \E k \in DOMAIN UpperCase : UpperCase[k] = Strip(s)[i]

\* the lookup request of a location
LookupOf(s) == [api |-> "searchAirport", query |-> CleanLocation(s)]

\* the positions of the requests sent to an endpoint
RequestsTo(api) == {i \in DOMAIN response.requests : response.requests[i].api = api}

\* a search with valid arguments has returned
FlightSearched ==
    /\ request.op = "search_flights"
    /\ response.done
    /\ ~FlightArgumentsBad

\* C22: in a search with valid arguments the departure lookup comes before
\* the arrival lookup and both before the one flight-search request; a
\* location of three upper-case characters after trimming gets no lookup;
\* a departure lookup that finds nothing gives the departure error with
\* no arrival lookup and no flight search; an arrival lookup that finds
\* nothing gives the arrival error with no flight search.
C22_AirportsResolvedInOrder ==
    FlightSearched =>
        LET dep == LookupOf(request.departure_location)
            arr == LookupOf(request.arrival_location)
            reqs == response.requests
        IN  /\ \A i \in RequestsTo("searchFlights") : i = Len(reqs)
            /\ \A i \in RequestsTo("searchAirport") :
                  \/ i = 1 /\ reqs[i] = dep
                  \/ i = 1 /\ reqs[i] = arr /\ ThreeUpperCase(request.departure_location)
                  \/ i = 2 /\ reqs[i] = arr /\ reqs[1] = dep
            /\ ThreeUpperCase(request.departure_location) =>
                  \A i \in DOMAIN reqs : reqs[i] # dep
            /\ ThreeUpperCase(request.arrival_location) =>
                  \A i \in DOMAIN reqs : reqs[i] # arr
            /\ \A ans \in FlightAnswers :
                  response = search_flights_tool(request, ans) =>
                      /\ (~ThreeUpperCase(request.departure_location)
                            /\ ans.departure = "none") =>
                            /\ response.value = ErrDeparture
                            /\ reqs = <<dep>>
                      /\ (~ThreeUpperCase(request.arrival_location)
                            /\ ans.arrival = "none"
                            /\ response.value # ErrDeparture) =>
                            /\ response.value = ErrArrival
                            /\ RequestsTo("searchFlights") = {}
                            /\ reqs[Len(reqs)] = arr

\* a search from a city name to a name that is no code stopped at the
\* departure lookup: one request, no arrival lookup, no flight search
C22_Witness ==
    /\ FlightSearched
    /\ request.departure_location = Str_Mumbai
    /\ request.arrival_location = Str_Del
    /\ response.value = ErrDeparture
    /\ response.requests = <<LookupOf(Str_Mumbai)>>

\* every category of the data has a place
NoEmptyPlaces(data) == \A i \in DOMAIN data : data[i].places # <<>>

\* the names of the places a list of references points to
NamesOf(refs) == [j \in DOMAIN refs |-> heap[refs[j]].name]

\* C23: at every moment every category of raw_places, of enriched_places
\* and, once the research stage has run, of research_data.categories has
\* a non-empty places list; once the finalize stage has run the keys of
\* final_result are those of raw_places, in the same order, and every
\* category of final_result lists the names of the category's places in
\* raw_places, as many and in the same order.
C23_CategoriesAndPlacesPreserved ==
    /\ NoEmptyPlaces(raw_places)
    /\ NoEmptyPlaces(enriched_places)
    /\ HasRun("add_research") => NoEmptyPlaces(research_data.categories)
    /\ HasRun("finalize_result") =>
          /\ Keys(final_result) = Keys(raw_places)
          /\ \A i \in DOMAIN final_result :
                [j \in DOMAIN final_result[i].places |->
                    final_result[i].places[j].tourist_place_name]
                  = NamesOf(raw_places[i].places)

\* a finished run with a category of two places of different names, one
\* of them replaced by an enriched record, the other kept as discovered
C23_Witness ==
    /\ HasRun("finalize_result")
    /\ \E i \in DOMAIN raw_places :
          /\ Len(raw_places[i].places) = 2
          /\ heap[raw_places[i].places[1]].name # heap[raw_places[i].places[2]].name
          /\ enriched_places[i].places[1] # raw_places[i].places[1]
          /\ enriched_places[i].places[2] = raw_places[i].places[2]
          /\ Len(final_result[i].places) = 2

\* the prefix of the error string each stage records
ErrorPrefix ==
    [discover_places    |-> "Discovery error: ",
     enrich_with_images |-> "Enrichment error: ",
     add_research       |-> "Research error: "]

\* the place of an error string in the order of the stages
ErrorRank(e) ==
    CASE e[1] = "Discovery error: "  -> 1
      [] e[1] = "Enrichment error: " -> 2
      [] e[1] = "Research error: "   -> 3
      [] OTHER -> 0

\* errors holds error strings of the stages, in the order of the stages,
\* at most one per stage
ErrorsOrdered ==
    /\ \A i \in DOMAIN errors : ErrorRank(errors[i]) > 0
    /\ \A i, j \in DOMAIN errors : i < j => ErrorRank(errors[i]) < ErrorRank(errors[j])

\* a step leaves errors alone, or it is the step of one of the first three
\* stages and appends one string of that stage to it
ErrorsGrowByOne ==
    \/ errors' = errors
    \/ /\ pc \in DOMAIN ErrorPrefix
       /\ Len(errors') = Len(errors) + 1
       /\ SubSeq(errors', 1, Len(errors)) = errors
       /\ errors'[Len(errors')][1] = ErrorPrefix[pc]

\* C24: errors only grows: every step leaves the entries it finds in
\* place, a step of one of the first three stages appends at most one
\* string, of that stage, the finalize stage and the return append none;
\* so errors always holds at most three strings, in the order Discovery,
\* Enrichment, Research.
C24_ErrorsOnlyGrow ==
    /\ [][ErrorsGrowByOne]_vars
    /\ [](ErrorsOrdered /\ Len(errors) <= 3)

\* a completed run whose discovery and research stages failed: two
\* strings, Discovery before Research
C24_Witness ==
    /\ pc = "END"
    /\ Len(errors) = 2
    /\ errors[1][1] = "Discovery error: "
    /\ errors[2][1] = "Research error: "

\* the discovery stage of the run failed
DiscoveryFailed == ErrorsOf("Discovery error: ") # <<>>

\* C25: what generate_travel_recommendations returns is final_result and
\* nothing else: every entry of it is a category, none carries the
\* errors; a run whose discovery stage failed returns the empty
\* dictionary, and so does a run whose discovery succeeded without a
\* place.
C25_ReturnsOnlyFinalResult ==
    returned.done =>
        /\ returned.value = final_result
        /\ \A i \in DOMAIN returned.value :
              returned.value[i].key \in CategoryKeys
        /\ DiscoveryFailed => returned.value = <<>>
        /\ (~DiscoveryFailed /\ raw_places = <<>>) => returned.value = <<>>

\* a run whose discovery failed has returned the empty dictionary, with
\* the error on record
C25_Witness ==
    /\ returned.done
    /\ DiscoveryFailed
    /\ errors # <<>>
    /\ returned.value = <<>>

\* the contents of a category dict: its categories with the place records
\* its references point to
Contents(data, h) ==
    [i \in DOMAIN data |->
        [key |-> data[i].key, category |-> data[i].category,
         places |-> [j \in DOMAIN data[i].places |-> h[data[i].places[j]]]]]

\* C26 as stated: the step of the research stage leaves the contents of
\* raw_places and of enriched_places as they were, and the step of the
\* enrichment stage those of raw_places.
C26_StagesWriteOnlyOwnOutput ==
    [][/\ pc = "add_research" =>
             /\ Contents(raw_places', heap') = Contents(raw_places, heap)
             /\ Contents(enriched_places', heap') = Contents(enriched_places, heap)
       /\ pc = "enrich_with_images" =>
             Contents(raw_places', heap') = Contents(raw_places, heap)]_vars

\* the records that are the first place of a category of enriched_places
TopRefs == {enriched_places[i].places[1] : i \in DOMAIN enriched_places}

\* the record differs from the one before at most by the value of the
\* field ai_insights, which it has
InsightsAdded(before, after) ==
    /\ DOMAIN after = DOMAIN before \cup {"ai_insights"}
    /\ \A f \in DOMAIN before \ {"ai_insights"} : after[f] = before[f]

\* C26, amended: the step of the enrichment stage leaves the contents of
\* raw_places as they were.  The step of the research stage leaves
\* raw_places and enriched_places holding the same categories and the
\* same place records; when it fails no record changes; when it succeeds
\* the first place record of every category of enriched_places gets the
\* field ai_insights, in place, every other field and every other record
\* staying as it was: the contents of enriched_places change there, and
\* so do those of raw_places wherever it holds that same record.
C26_ResearchWritesInsightsInPlace ==
    [][/\ pc = "enrich_with_images" =>
             Contents(raw_places', heap') = Contents(raw_places, heap)
       /\ pc = "add_research" =>
             /\ raw_places' = raw_places
             /\ enriched_places' = enriched_places
             /\ DOMAIN heap' = DOMAIN heap
             /\ \A r \in DOMAIN heap \ TopRefs : heap'[r] = heap[r]
             /\ IF errors' # errors
                THEN heap' = heap
                ELSE \A r \in TopRefs : InsightsAdded(heap[r], heap'[r])]_vars

\* the research stage has run and the first place of a category of
\* raw_places, a record the enrichment kept, carries ai_insights
C26_Witness ==
    /\ HasRun("add_research")
    /\ ErrorsOf("Research error: ") = <<>>
    /\ \E i \in DOMAIN raw_places :
          /\ enriched_places[i].places[1] = raw_places[i].places[1]
          /\ "ai_insights" \in DOMAIN heap[raw_places[i].places[1]]

====
